---- MODULE Spec2Model ----
(***************************************************************************)
(* Double-entry bookkeeping core of utility_functions/utilities.py:        *)
(* posting engine, cash operations, invoice / bill lifecycle, payment      *)
(* application, void, and the trial balance.                               *)
(*                                                                         *)
(* Money is counted in whole minor units (integers), so Decimal arithmetic *)
(* is exact.  The database is one record `db` of tables; every handler is  *)
(* an operator from (db, arguments, clock) to the committed database and   *)
(* the value returned to the caller.  A handler that rolls back returns    *)
(* the database it was given.  `db` is the committed database, the one a   *)
(* reader on another connection sees; `tx` is the transaction a handler    *)
(* has open when its statements are followed one by one.                   *)
(***************************************************************************)
EXTENDS Integers, Sequences, FiniteSets, TLC

VARIABLES db, today, last, tx

vars == <<db, today, last, tx>>

-----------------------------------------------------------------------------
(* Bounds of the model *)

(* Posted batches in a run of all operations, and in a run of the          *)
(* document operations; days on the clock; largest amount of money.        *)
MaxPostings == 2
MaxBatches == 3
MaxDay == 2
MaxAmount == 2

-----------------------------------------------------------------------------
(* Master data: chart of accounts, bank accounts, parties *)

AccountIDs == 1 .. 7

BankAccountIDs == {1, 2}

(* 1, 2: cash accounts of bank accounts 1 and 2; 3: accounts receivable;    *)
(* 4: revenue; 5: accounts payable; 6: expense; 7: an account switched off  *)
(* in the chart of accounts (IsActive = 0).                                 *)
ChartOfAccounts ==
    [a \in AccountIDs |->
        CASE a = 1 -> [BalanceType |-> "Debit",  IsActive |-> 1]
          [] a = 2 -> [BalanceType |-> "Debit",  IsActive |-> 1]
          [] a = 3 -> [BalanceType |-> "Debit",  IsActive |-> 1]
          [] a = 4 -> [BalanceType |-> "Credit", IsActive |-> 1]
          [] a = 5 -> [BalanceType |-> "Credit", IsActive |-> 1]
          [] a = 6 -> [BalanceType |-> "Debit",  IsActive |-> 1]
          [] a = 7 -> [BalanceType |-> "Credit", IsActive |-> 0]]

(* The chart-of-accounts cash account linked to a bank account *)
CashAccountOf(bank_account_id) == bank_account_id

-----------------------------------------------------------------------------
(* Sequence helpers *)

RECURSIVE SumSeq(_)
SumSeq(s) == IF s = <<>> THEN 0 ELSE Head(s) + SumSeq(Tail(s))

DebitsOf(rows) == SumSeq([i \in 1 .. Len(rows) |-> rows[i].DebitAmount])

CreditsOf(rows) == SumSeq([i \in 1 .. Len(rows) |-> rows[i].CreditAmount])

(* A Reference string such as "CashTransID:7" or "Transfer IDs:3,4" *)
Ref(kind, a, b) == [kind |-> kind, a |-> a, b |-> b]

-----------------------------------------------------------------------------
(* The posting engine *)

(* Variant: the INSERT binds the debit amount only, the credit column is   *)
(* left at 0.00; the totals are still summed from the lines.               *)
_generate_gl_entries_debit_only(gl, entries, reference, dates) ==
    LET rows == [i \in 1 .. Len(entries) |->
                    [AccountID    |-> entries[i][1],
                     DebitAmount  |-> entries[i][2],
                     CreditAmount |-> 0,
                     Reference    |-> reference,
                     EntryDate    |-> dates[i]]]
        total_debit  == SumSeq([i \in 1 .. Len(entries) |-> entries[i][2]])
        total_credit == SumSeq([i \in 1 .. Len(entries) |-> entries[i][3]])
    IN  [gl |-> gl \o rows, ok |-> total_debit = total_credit]

(* Variant: the balance check after the loop is missing *)
_generate_gl_entries_unchecked(gl, entries, reference, dates) ==
    LET rows == [i \in 1 .. Len(entries) |->
                    [AccountID    |-> entries[i][1],
                     DebitAmount  |-> entries[i][2],
                     CreditAmount |-> entries[i][3],
                     Reference    |-> reference,
                     EntryDate    |-> dates[i]]]
    IN  [gl |-> gl \o rows, ok |-> TRUE]

(* entries: sequence of <<account_id, debit, credit>>; dates[i] is the value *)
(* DATE('now') has when the i-th INSERT runs.  The rows are inserted into    *)
(* the open transaction before the balance check; ok = FALSE stands for the  *)
(* ValueError raised after the loop.                                         *)
_generate_gl_entries(gl, entries, reference, dates) ==
    LET rows == [i \in 1 .. Len(entries) |->
                    [AccountID    |-> entries[i][1],
                     DebitAmount  |-> entries[i][2],
                     CreditAmount |-> entries[i][3],
                     Reference    |-> reference,
                     EntryDate    |-> dates[i]]]
        total_debit  == SumSeq([i \in 1 .. Len(entries) |-> entries[i][2]])
        total_credit == SumSeq([i \in 1 .. Len(entries) |-> entries[i][3]])
    IN  [gl |-> gl \o rows, ok |-> total_debit = total_credit]

(* Clock readings of the INSERTs of a batch that starts on day `now`;       *)
(* midnight passes after the first statement when tick is TRUE.             *)
Dates(now, tick, n) == [i \in 1 .. n |-> IF tick /\ i > 1 THEN now + 1 ELSE now]

EndDay(now, tick) == IF tick THEN now + 1 ELSE now

(* What a handler leaves behind: the committed database, whether it        *)
(* reported success, the path it took, and the day on which it returned.   *)
Result(d, ok, rc, now) == [db |-> d, ok |-> ok, rc |-> rc, today |-> now]

-----------------------------------------------------------------------------
(* Bookkeeping and recording functions *)

record_simple_cash_receipt(d, amount, bank_account_id, cash_account_id, income_account_id, now, tick) ==
    IF amount <= 0 THEN Result(d, FALSE, "ValueError", now)
    ELSE
    LET cash_transaction_id == Len(d.ct) + 1
        ct  == Append(d.ct, [BankAccountID |-> bank_account_id, TransactionType |-> "Deposit", Amount |-> amount])
        bal == [d.bank EXCEPT ![bank_account_id] = @ + amount]
        g   == _generate_gl_entries(d.gl,
                   << <<cash_account_id, amount, 0>>, <<income_account_id, 0, amount>> >>,
                   Ref("CashTransID", cash_transaction_id, 0), Dates(now, tick, 2))
    IN  IF g.ok
        THEN Result([d EXCEPT !.ct = ct, !.bank = bal, !.gl = g.gl], TRUE, "commit", EndDay(now, tick))
        ELSE Result(d, FALSE, "rollback", EndDay(now, tick))

(* The transaction of record_simple_cash_receipt around the posting engine, *)
(* with the batch lines left to the caller: BEGIN, the cash transaction row, *)
(* the bank balance update, _generate_gl_entries, then COMMIT, or ROLLBACK   *)
(* in the except branch.                                                     *)
post_in_transaction(d, amount, bank_account_id, gl_entries, now, tick) ==
    LET cash_transaction_id == Len(d.ct) + 1
        ct  == Append(d.ct, [BankAccountID |-> bank_account_id, TransactionType |-> "Deposit", Amount |-> amount])
        bal == [d.bank EXCEPT ![bank_account_id] = @ + amount]
        g   == _generate_gl_entries(d.gl, gl_entries,
                   Ref("CashTransID", cash_transaction_id, 0), Dates(now, tick, Len(gl_entries)))
    IN  IF g.ok
        THEN Result([d EXCEPT !.ct = ct, !.bank = bal, !.gl = g.gl], TRUE, "commit", EndDay(now, tick))
        ELSE Result(d, FALSE, "rollback", EndDay(now, tick))

record_simple_cash_disbursement(d, amount, bank_account_id, cash_account_id, expense_account_id, now, tick) ==
    IF amount <= 0 THEN Result(d, FALSE, "ValueError", now)
    ELSE
    LET cash_transaction_id == Len(d.ct) + 1
        ct  == Append(d.ct, [BankAccountID |-> bank_account_id, TransactionType |-> "Withdrawal", Amount |-> amount])
        bal == [d.bank EXCEPT ![bank_account_id] = @ - amount]
        g   == _generate_gl_entries(d.gl,
                   << <<expense_account_id, amount, 0>>, <<cash_account_id, 0, amount>> >>,
                   Ref("CashTransID", cash_transaction_id, 0), Dates(now, tick, 2))
    IN  IF g.ok
        THEN Result([d EXCEPT !.ct = ct, !.bank = bal, !.gl = g.gl], TRUE, "commit", EndDay(now, tick))
        ELSE Result(d, FALSE, "rollback", EndDay(now, tick))

(* Variant: the two lines name the accounts the other way round *)
post_simple_manual_journal_entry_swapped(d, entry_date, debit_account_id, credit_account_id, amount, reference, now, tick) ==
    IF amount <= 0 THEN Result(d, FALSE, "ValueError", now)
    ELSE IF debit_account_id = credit_account_id THEN Result(d, FALSE, "ValueError", now)
    ELSE
    LET ref == IF reference = 0 THEN Ref("Manual Journal Entry", entry_date, 0)
                                ELSE Ref("text", reference, 0)
        g   == _generate_gl_entries(d.gl,
                   << <<credit_account_id, amount, 0>>, <<debit_account_id, 0, amount>> >>,
                   ref, Dates(now, tick, 2))
    IN  IF g.ok
        THEN Result([d EXCEPT !.gl = g.gl], TRUE, "commit", EndDay(now, tick))
        ELSE Result(d, FALSE, "rollback", EndDay(now, tick))

(* reference: 0 when the caller passes None, else the caller's text *)
post_simple_manual_journal_entry(d, entry_date, debit_account_id, credit_account_id, amount, reference, now, tick) ==
    IF amount <= 0 THEN Result(d, FALSE, "ValueError", now)
    ELSE IF debit_account_id = credit_account_id THEN Result(d, FALSE, "ValueError", now)
    ELSE
    LET ref == IF reference = 0 THEN Ref("Manual Journal Entry", entry_date, 0)
                                ELSE Ref("text", reference, 0)
        g   == _generate_gl_entries(d.gl,
                   << <<debit_account_id, amount, 0>>, <<credit_account_id, 0, amount>> >>,
                   ref, Dates(now, tick, 2))
    IN  IF g.ok
        THEN Result([d EXCEPT !.gl = g.gl], TRUE, "commit", EndDay(now, tick))
        ELSE Result(d, FALSE, "rollback", EndDay(now, tick))

view_bank_account_balance(d, bank_account_id) ==
    IF bank_account_id \in DOMAIN d.bank THEN d.bank[bank_account_id] ELSE 0

RowsOfAccount(gl, account_id) == SelectSeq(gl, LAMBDA r : r.AccountID = account_id)

view_gl_account_balance(d, account_id) ==
    IF account_id \notin DOMAIN ChartOfAccounts THEN 0
    ELSE
    LET balance_type == ChartOfAccounts[account_id].BalanceType
        total_debit  == DebitsOf(RowsOfAccount(d.gl, account_id))
        total_credit == CreditsOf(RowsOfAccount(d.gl, account_id))
    IN  IF balance_type = "Debit" THEN total_debit - total_credit
        ELSE IF balance_type = "Credit" THEN total_credit - total_debit
        ELSE total_debit - total_credit

record_bank_transfer(d, amount, source_bank_account_id, source_cash_account_id, target_bank_account_id, target_cash_account_id, now, tick) ==
    IF amount <= 0 THEN Result(d, FALSE, "ValueError", now)
    ELSE IF source_bank_account_id = target_bank_account_id THEN Result(d, FALSE, "ValueError", now)
    ELSE IF source_cash_account_id = target_cash_account_id THEN Result(d, FALSE, "ValueError", now)
    ELSE
    LET source_cash_transaction_id == Len(d.ct) + 1
        ct1  == Append(d.ct, [BankAccountID |-> source_bank_account_id, TransactionType |-> "Transfer", Amount |-> amount])
        bal1 == [d.bank EXCEPT ![source_bank_account_id] = @ - amount]
        target_cash_transaction_id == Len(ct1) + 1
        ct2  == Append(ct1, [BankAccountID |-> target_bank_account_id, TransactionType |-> "Transfer", Amount |-> amount])
        bal2 == [bal1 EXCEPT ![target_bank_account_id] = @ + amount]
        g    == _generate_gl_entries(d.gl,
                   << <<target_cash_account_id, amount, 0>>, <<source_cash_account_id, 0, amount>> >>,
                   Ref("Transfer IDs", source_cash_transaction_id, target_cash_transaction_id),
                   Dates(now, tick, 2))
    IN  IF g.ok
        THEN Result([d EXCEPT !.ct = ct2, !.bank = bal2, !.gl = g.gl], TRUE, "commit", EndDay(now, tick))
        ELSE Result(d, FALSE, "rollback", EndDay(now, tick))

-----------------------------------------------------------------------------
(* Accounts receivable *)

(* An invoice number: the text is lit followed by the decimal digits of n  *)
(* written w characters wide, so InvNum("INV-", 1, 4) is "INV-0001".        *)
InvNum(lit, n, w) == [lit |-> lit, n |-> n, w |-> w]

(* The invoice_number argument left at its default None *)
NoNumber == InvNum("None", 0, 0)

(* The numbers of the model are small ones and those from MaxInt64 on,     *)
(* which stands for 9223372036854775807, the largest INTEGER of SQLite; no *)
(* number in between occurs.                                               *)
MaxInt64 == 100

(* CAST(text AS INTEGER): digits that spell a larger number give the       *)
(* largest INTEGER                                                         *)
CastAsInteger(n) == IF n > MaxInt64 THEN MaxInt64 ELSE n

(* InvoiceNumber LIKE 'INV-%': LIKE takes ASCII letters in either case *)
Like(lit) == lit \in {"INV-", "inv-"}

(* MAX(CAST(SUBSTR(InvoiceNumber, 5) AS INTEGER)) ... LIKE 'INV-%', then    *)
(* f"INV-{next_num:04d}"                                                    *)
GenerateInvoiceNumber(inv) ==
    LET nums == {CastAsInteger(inv[i].InvoiceNumber.n) :
                    i \in {j \in 1 .. Len(inv) : Like(inv[j].InvoiceNumber.lit)}}
        max_num == IF nums = {} THEN 0 ELSE CHOOSE m \in nums : \A k \in nums : k <= m
        next_num == max_num + 1
    IN  InvNum("INV-", next_num, 4)

(* line_subtotal + line_subtotal * (tax_rate / 100) *)
(* Variant: the tax is left out of the total *)
DocumentTotal_without_tax(quantity, unit_price, tax_rate) ==
    LET line_subtotal == quantity * unit_price
    IN  line_subtotal

DocumentTotal(quantity, unit_price, tax_rate) ==
    LET line_subtotal == quantity * unit_price
        tax_amount    == (line_subtotal * tax_rate) \div 100
    IN  line_subtotal + tax_amount

TaxAmount(quantity, unit_price, tax_rate) == ((quantity * unit_price) * tax_rate) \div 100

(* Variant: the batch is posted for the subtotal, the tax left out *)
create_simple_sales_invoice_posts_subtotal(d, customer_id, due_date, quantity, unit_price, revenue_account_id, ar_account_id, invoice_number, tax_rate, now, tick) ==
    IF quantity <= 0 \/ unit_price < 0 \/ tax_rate < 0 THEN Result(d, FALSE, "ValueError", now)
    ELSE
    LET total_amount == DocumentTotal(quantity, unit_price, tax_rate)
        line_subtotal == quantity * unit_price
        number == IF invoice_number = NoNumber THEN GenerateInvoiceNumber(d.inv) ELSE invoice_number
    IN  IF \E i \in 1 .. Len(d.inv) : d.inv[i].InvoiceNumber = number
        THEN Result(d, FALSE, "IntegrityError", now)
        ELSE
        LET invoice_id == Len(d.inv) + 1
            inv == Append(d.inv, [InvoiceNumber |-> number, CustomerID |-> customer_id,
                                  DueDate |-> due_date, TotalAmount |-> total_amount,
                                  PaidAmount |-> 0, Balance |-> total_amount, Status |-> "Issued"])
            items == Append(d.invItems, [InvoiceID |-> invoice_id, Quantity |-> quantity,
                                  UnitPrice |-> unit_price, TaxRate |-> tax_rate,
                                  TaxAmount |-> TaxAmount(quantity, unit_price, tax_rate),
                                  LineTotal |-> total_amount, AccountID |-> revenue_account_id])
            g == _generate_gl_entries(d.gl,
                     << <<ar_account_id, line_subtotal, 0>>, <<revenue_account_id, 0, line_subtotal>> >>,
                     Ref("InvoiceID", invoice_id, 0), Dates(now, tick, 2))
        IN  IF g.ok
            THEN Result([d EXCEPT !.inv = inv, !.invItems = items, !.gl = g.gl], TRUE, "commit", EndDay(now, tick))
            ELSE Result(d, FALSE, "rollback", EndDay(now, tick))

(* invoice_number: NoNumber when the caller passes None, else an InvNum *)
create_simple_sales_invoice(d, customer_id, due_date, quantity, unit_price, revenue_account_id, ar_account_id, invoice_number, tax_rate, now, tick) ==
    IF quantity <= 0 \/ unit_price < 0 \/ tax_rate < 0 THEN Result(d, FALSE, "ValueError", now)
    ELSE
    LET total_amount == DocumentTotal(quantity, unit_price, tax_rate)
        number == IF invoice_number = NoNumber THEN GenerateInvoiceNumber(d.inv) ELSE invoice_number
    IN  IF \E i \in 1 .. Len(d.inv) : d.inv[i].InvoiceNumber = number
        THEN Result(d, FALSE, "IntegrityError", now)
        ELSE
        LET invoice_id == Len(d.inv) + 1
            inv == Append(d.inv, [InvoiceNumber |-> number, CustomerID |-> customer_id,
                                  DueDate |-> due_date, TotalAmount |-> total_amount,
                                  PaidAmount |-> 0, Balance |-> total_amount, Status |-> "Issued"])
            items == Append(d.invItems, [InvoiceID |-> invoice_id, Quantity |-> quantity,
                                  UnitPrice |-> unit_price, TaxRate |-> tax_rate,
                                  TaxAmount |-> TaxAmount(quantity, unit_price, tax_rate),
                                  LineTotal |-> total_amount, AccountID |-> revenue_account_id])
            g == _generate_gl_entries(d.gl,
                     << <<ar_account_id, total_amount, 0>>, <<revenue_account_id, 0, total_amount>> >>,
                     Ref("InvoiceID", invoice_id, 0), Dates(now, tick, 2))
        IN  IF g.ok
            THEN Result([d EXCEPT !.inv = inv, !.invItems = items, !.gl = g.gl], TRUE, "commit", EndDay(now, tick))
            ELSE Result(d, FALSE, "rollback", EndDay(now, tick))

(* Variant: the payment also settles the first invoice when it covers it *)
record_simple_customer_payment_settles(d, customer_id, amount, bank_account_id, cash_account_id, ar_account_id, now, tick) ==
    IF amount <= 0 THEN Result(d, FALSE, "ValueError", now)
    ELSE
    LET payment_id == Len(d.cpay) + 1
        cpay == Append(d.cpay, [CustomerID |-> customer_id, Amount |-> amount, BankAccountID |-> bank_account_id])
        bal  == [d.bank EXCEPT ![bank_account_id] = @ + amount]
        inv  == IF Len(d.inv) >= 1 /\ d.inv[1].Status = "Issued" /\ d.inv[1].Balance > 0 /\ amount >= d.inv[1].Balance
                THEN [d.inv EXCEPT ![1] = [@ EXCEPT !.PaidAmount = d.inv[1].TotalAmount, !.Balance = 0, !.Status = "Paid"]]
                ELSE d.inv
        g    == _generate_gl_entries(d.gl,
                    << <<cash_account_id, amount, 0>>, <<ar_account_id, 0, amount>> >>,
                    Ref("CustPmtID", payment_id, 0), Dates(now, tick, 2))
    IN  IF g.ok
        THEN Result([d EXCEPT !.cpay = cpay, !.bank = bal, !.inv = inv, !.gl = g.gl], TRUE, "commit", EndDay(now, tick))
        ELSE Result(d, FALSE, "rollback", EndDay(now, tick))

record_simple_customer_payment(d, customer_id, amount, bank_account_id, cash_account_id, ar_account_id, now, tick) ==
    IF amount <= 0 THEN Result(d, FALSE, "ValueError", now)
    ELSE
    LET payment_id == Len(d.cpay) + 1
        cpay == Append(d.cpay, [CustomerID |-> customer_id, Amount |-> amount, BankAccountID |-> bank_account_id])
        bal  == [d.bank EXCEPT ![bank_account_id] = @ + amount]
        g    == _generate_gl_entries(d.gl,
                    << <<cash_account_id, amount, 0>>, <<ar_account_id, 0, amount>> >>,
                    Ref("CustPmtID", payment_id, 0), Dates(now, tick, 2))
    IN  IF g.ok
        THEN Result([d EXCEPT !.cpay = cpay, !.bank = bal, !.gl = g.gl], TRUE, "commit", EndDay(now, tick))
        ELSE Result(d, FALSE, "rollback", EndDay(now, tick))

(* The InvoiceIDs listed, in the order returned (DueDate ascending; rows    *)
(* with equal DueDate in table order).                                      *)
RECURSIVE SortByDueDate(_, _)
SortByDueDate(docs, ids) ==
    IF ids = {} THEN <<>>
    ELSE LET first == CHOOSE i \in ids : \A j \in ids :
                          \/ docs[i].DueDate < docs[j].DueDate
                          \/ (docs[i].DueDate = docs[j].DueDate /\ i <= j)
         IN  <<first>> \o SortByDueDate(docs, ids \ {first})

list_open_customer_invoices(d, customer_id) ==
    SortByDueDate(d.inv, {i \in 1 .. Len(d.inv) :
        /\ d.inv[i].CustomerID = customer_id
        /\ d.inv[i].Status \in {"Issued", "Overdue"}
        /\ d.inv[i].Balance > 0})

(* Variant: PaidAmount is set to the payment's amount *)
apply_full_payment_to_invoice_amount(d, payment_id, invoice_id, now) ==
    IF payment_id \notin 1 .. Len(d.cpay) THEN Result(d, FALSE, "payment not found", now)
    ELSE IF invoice_id \notin 1 .. Len(d.inv) THEN Result(d, FALSE, "document not found", now)
    ELSE
    LET payment_amount  == d.cpay[payment_id].Amount
        invoice_balance == d.inv[invoice_id].Balance
        invoice_status  == d.inv[invoice_id].Status
    IN  IF invoice_status = "Paid" \/ invoice_balance <= 0
        THEN Result(d, FALSE, "already paid or zero balance", now)
        ELSE IF payment_amount < invoice_balance
        THEN Result(d, FALSE, "payment insufficient", now)
        ELSE Result([d EXCEPT !.inv[invoice_id] =
                        [@ EXCEPT !.PaidAmount = payment_amount, !.Balance = 0, !.Status = "Paid"]],
                    TRUE, "commit", now)

(* Variant: the "already paid or zero balance" check is missing *)
apply_full_payment_to_invoice_no_paid_check(d, payment_id, invoice_id, now) ==
    IF payment_id \notin 1 .. Len(d.cpay) THEN Result(d, FALSE, "payment not found", now)
    ELSE IF invoice_id \notin 1 .. Len(d.inv) THEN Result(d, FALSE, "document not found", now)
    ELSE
    LET payment_amount  == d.cpay[payment_id].Amount
        invoice_balance == d.inv[invoice_id].Balance
    IN  IF payment_amount < invoice_balance
        THEN Result(d, FALSE, "payment insufficient", now)
        ELSE Result([d EXCEPT !.inv[invoice_id] =
                        [@ EXCEPT !.PaidAmount = d.inv[invoice_id].TotalAmount, !.Balance = 0, !.Status = "Paid"]],
                    TRUE, "commit", now)

apply_full_payment_to_invoice(d, payment_id, invoice_id, now) ==
    IF payment_id \notin 1 .. Len(d.cpay) THEN Result(d, FALSE, "payment not found", now)
    ELSE IF invoice_id \notin 1 .. Len(d.inv) THEN Result(d, FALSE, "document not found", now)
    ELSE
    LET payment_amount  == d.cpay[payment_id].Amount
        invoice_balance == d.inv[invoice_id].Balance
        invoice_status  == d.inv[invoice_id].Status
    IN  IF invoice_status = "Paid" \/ invoice_balance <= 0
        THEN Result(d, FALSE, "already paid or zero balance", now)
        ELSE IF payment_amount < invoice_balance
        THEN Result(d, FALSE, "payment insufficient", now)
        ELSE Result([d EXCEPT !.inv[invoice_id] =
                        [@ EXCEPT !.PaidAmount = d.inv[invoice_id].TotalAmount, !.Balance = 0, !.Status = "Paid"]],
                    TRUE, "commit", now)

get_total_accounts_receivable(d) ==
    SumSeq([i \in 1 .. Len(d.inv) |->
        IF d.inv[i].Status \notin {"Paid", "Cancelled", "Draft"} /\ d.inv[i].Balance > 0
        THEN d.inv[i].Balance ELSE 0])

(* Variant: the void deletes the creation batch instead of reversing it *)
void_invoice_deletes_batch(d, invoice_id, ar_account_id, revenue_account_id, now, tick) ==
    IF invoice_id \notin 1 .. Len(d.inv) THEN Result(d, FALSE, "document not found", now)
    ELSE
    LET paid_amount  == d.inv[invoice_id].PaidAmount
        status       == d.inv[invoice_id].Status
    IN  IF paid_amount > 0 THEN Result(d, FALSE, "payments recorded", now)
        ELSE IF status = "Paid" \/ status = "Cancelled" THEN Result(d, FALSE, "cannot void status", now)
        ELSE
        LET inv == [d.inv EXCEPT ![invoice_id] = [@ EXCEPT !.Status = "Cancelled", !.Balance = 0]]
            gl  == SelectSeq(d.gl, LAMBDA r : r.Reference # Ref("InvoiceID", invoice_id, 0))
        IN  Result([d EXCEPT !.inv = inv, !.gl = gl], TRUE, "commit", now)

(* Variant: the reversing lines repeat the sides of the creation batch *)
void_invoice_same_sides(d, invoice_id, ar_account_id, revenue_account_id, now, tick) ==
    IF invoice_id \notin 1 .. Len(d.inv) THEN Result(d, FALSE, "document not found", now)
    ELSE
    LET paid_amount  == d.inv[invoice_id].PaidAmount
        status       == d.inv[invoice_id].Status
        total_amount == d.inv[invoice_id].TotalAmount
    IN  IF paid_amount > 0 THEN Result(d, FALSE, "payments recorded", now)
        ELSE IF status = "Paid" \/ status = "Cancelled" THEN Result(d, FALSE, "cannot void status", now)
        ELSE
        LET inv == [d.inv EXCEPT ![invoice_id] = [@ EXCEPT !.Status = "Cancelled", !.Balance = 0]]
        IN  IF total_amount > 0
            THEN LET g == _generate_gl_entries(d.gl,
                              << <<ar_account_id, total_amount, 0>>, <<revenue_account_id, 0, total_amount>> >>,
                              Ref("VoidInvoiceID", invoice_id, 0), Dates(now, tick, 2))
                 IN  IF g.ok
                     THEN Result([d EXCEPT !.inv = inv, !.gl = g.gl], TRUE, "commit", EndDay(now, tick))
                     ELSE Result(d, FALSE, "rollback", EndDay(now, tick))
            ELSE Result([d EXCEPT !.inv = inv], TRUE, "commit", now)

(* Variant: the status check (Paid, Cancelled) is missing *)
void_invoice_no_status_check(d, invoice_id, ar_account_id, revenue_account_id, now, tick) ==
    IF invoice_id \notin 1 .. Len(d.inv) THEN Result(d, FALSE, "document not found", now)
    ELSE
    LET paid_amount  == d.inv[invoice_id].PaidAmount
        total_amount == d.inv[invoice_id].TotalAmount
    IN  IF paid_amount > 0 THEN Result(d, FALSE, "payments recorded", now)
        ELSE
        LET inv == [d.inv EXCEPT ![invoice_id] = [@ EXCEPT !.Status = "Cancelled", !.Balance = 0]]
        IN  IF total_amount > 0
            THEN LET g == _generate_gl_entries(d.gl,
                              << <<ar_account_id, 0, total_amount>>, <<revenue_account_id, total_amount, 0>> >>,
                              Ref("VoidInvoiceID", invoice_id, 0), Dates(now, tick, 2))
                 IN  IF g.ok
                     THEN Result([d EXCEPT !.inv = inv, !.gl = g.gl], TRUE, "commit", EndDay(now, tick))
                     ELSE Result(d, FALSE, "rollback", EndDay(now, tick))
            ELSE Result([d EXCEPT !.inv = inv], TRUE, "commit", now)

void_invoice(d, invoice_id, ar_account_id, revenue_account_id, now, tick) ==
    IF invoice_id \notin 1 .. Len(d.inv) THEN Result(d, FALSE, "document not found", now)
    ELSE
    LET paid_amount  == d.inv[invoice_id].PaidAmount
        status       == d.inv[invoice_id].Status
        total_amount == d.inv[invoice_id].TotalAmount
    IN  IF paid_amount > 0 THEN Result(d, FALSE, "payments recorded", now)
        ELSE IF status = "Paid" \/ status = "Cancelled" THEN Result(d, FALSE, "cannot void status", now)
        ELSE
        LET inv == [d.inv EXCEPT ![invoice_id] = [@ EXCEPT !.Status = "Cancelled", !.Balance = 0]]
        IN  IF total_amount > 0
            THEN LET g == _generate_gl_entries(d.gl,
                              << <<ar_account_id, 0, total_amount>>, <<revenue_account_id, total_amount, 0>> >>,
                              Ref("VoidInvoiceID", invoice_id, 0), Dates(now, tick, 2))
                 IN  IF g.ok
                     THEN Result([d EXCEPT !.inv = inv, !.gl = g.gl], TRUE, "commit", EndDay(now, tick))
                     ELSE Result(d, FALSE, "rollback", EndDay(now, tick))
            ELSE Result([d EXCEPT !.inv = inv], TRUE, "commit", now)

-----------------------------------------------------------------------------
(* Accounts payable *)

(* Bills.Balance is a generated column: TotalAmount - PaidAmount *)
BillBalance(bill) == bill.TotalAmount - bill.PaidAmount

enter_simple_vendor_bill(d, vendor_id, bill_number, due_date, quantity, unit_price, expense_account_id, ap_account_id, tax_rate, now, tick) ==
    IF quantity <= 0 \/ unit_price < 0 \/ tax_rate < 0 THEN Result(d, FALSE, "ValueError", now)
    ELSE
    LET total_amount == DocumentTotal(quantity, unit_price, tax_rate)
    IN  IF \E i \in 1 .. Len(d.bills) : d.bills[i].BillNumber = bill_number
        THEN Result(d, FALSE, "IntegrityError", now)
        ELSE
        LET bill_id == Len(d.bills) + 1
            bills == Append(d.bills, [BillNumber |-> bill_number, VendorID |-> vendor_id,
                                      DueDate |-> due_date, TotalAmount |-> total_amount,
                                      PaidAmount |-> 0, Status |-> "Received"])
            items == Append(d.billItems, [BillID |-> bill_id, Quantity |-> quantity,
                                      UnitPrice |-> unit_price, TaxRate |-> tax_rate,
                                      AccountID |-> expense_account_id])
            g == _generate_gl_entries(d.gl,
                     << <<expense_account_id, total_amount, 0>>, <<ap_account_id, 0, total_amount>> >>,
                     Ref("BillID", bill_id, 0), Dates(now, tick, 2))
        IN  IF g.ok
            THEN Result([d EXCEPT !.bills = bills, !.billItems = items, !.gl = g.gl], TRUE, "commit", EndDay(now, tick))
            ELSE Result(d, FALSE, "rollback", EndDay(now, tick))

record_simple_vendor_payment(d, vendor_id, amount, bank_account_id, cash_account_id, ap_account_id, now, tick) ==
    IF amount <= 0 THEN Result(d, FALSE, "ValueError", now)
    ELSE
    LET payment_id == Len(d.vpay) + 1
        vpay == Append(d.vpay, [VendorID |-> vendor_id, Amount |-> amount, BankAccountID |-> bank_account_id])
        bal  == [d.bank EXCEPT ![bank_account_id] = @ - amount]
        g    == _generate_gl_entries(d.gl,
                    << <<ap_account_id, amount, 0>>, <<cash_account_id, 0, amount>> >>,
                    Ref("VendPmtID", payment_id, 0), Dates(now, tick, 2))
    IN  IF g.ok
        THEN Result([d EXCEPT !.vpay = vpay, !.bank = bal, !.gl = g.gl], TRUE, "commit", EndDay(now, tick))
        ELSE Result(d, FALSE, "rollback", EndDay(now, tick))

(* Variant: the Status filter is missing *)
list_open_vendor_bills_any_status(d, vendor_id) ==
    SortByDueDate(d.bills, {i \in 1 .. Len(d.bills) :
        /\ d.bills[i].VendorID = vendor_id
        /\ BillBalance(d.bills[i]) > 0})

list_open_vendor_bills(d, vendor_id) ==
    SortByDueDate(d.bills, {i \in 1 .. Len(d.bills) :
        /\ d.bills[i].VendorID = vendor_id
        /\ d.bills[i].Status \notin {"Paid", "Cancelled", "Draft"}
        /\ BillBalance(d.bills[i]) > 0})

(* Variant: the "payment insufficient" check is missing *)
apply_full_payment_to_bill_no_sufficiency(d, payment_id, bill_id, now) ==
    IF payment_id \notin 1 .. Len(d.vpay) THEN Result(d, FALSE, "payment not found", now)
    ELSE IF bill_id \notin 1 .. Len(d.bills) THEN Result(d, FALSE, "document not found", now)
    ELSE
    LET bill_balance == BillBalance(d.bills[bill_id])
        bill_status  == d.bills[bill_id].Status
    IN  IF bill_status = "Paid" \/ bill_balance <= 0
        THEN Result(d, FALSE, "already paid or zero balance", now)
        ELSE Result([d EXCEPT !.bills[bill_id] =
                        [@ EXCEPT !.PaidAmount = d.bills[bill_id].TotalAmount, !.Status = "Paid"]],
                    TRUE, "commit", now)

(* Variant: applying also draws the amount from the bank balance *)
apply_full_payment_to_bill_draws_bank(d, payment_id, bill_id, now) ==
    IF payment_id \notin 1 .. Len(d.vpay) THEN Result(d, FALSE, "payment not found", now)
    ELSE IF bill_id \notin 1 .. Len(d.bills) THEN Result(d, FALSE, "document not found", now)
    ELSE
    LET payment_amount == d.vpay[payment_id].Amount
        bill_balance   == BillBalance(d.bills[bill_id])
        bill_status    == d.bills[bill_id].Status
    IN  IF bill_status = "Paid" \/ bill_balance <= 0
        THEN Result(d, FALSE, "already paid or zero balance", now)
        ELSE IF payment_amount < bill_balance
        THEN Result(d, FALSE, "payment insufficient", now)
        ELSE Result([d EXCEPT !.bills[bill_id] =
                        [@ EXCEPT !.PaidAmount = d.bills[bill_id].TotalAmount, !.Status = "Paid"],
                              !.bank[d.vpay[payment_id].BankAccountID] = @ - payment_amount],
                    TRUE, "commit", now)

(* Variant: the UPDATE sets PaidAmount and leaves the Status *)
apply_full_payment_to_bill_keeps_status(d, payment_id, bill_id, now) ==
    IF payment_id \notin 1 .. Len(d.vpay) THEN Result(d, FALSE, "payment not found", now)
    ELSE IF bill_id \notin 1 .. Len(d.bills) THEN Result(d, FALSE, "document not found", now)
    ELSE
    LET payment_amount == d.vpay[payment_id].Amount
        bill_balance   == BillBalance(d.bills[bill_id])
        bill_status    == d.bills[bill_id].Status
    IN  IF bill_status = "Paid" \/ bill_balance <= 0
        THEN Result(d, FALSE, "already paid or zero balance", now)
        ELSE IF payment_amount < bill_balance
        THEN Result(d, FALSE, "payment insufficient", now)
        ELSE Result([d EXCEPT !.bills[bill_id] =
                        [@ EXCEPT !.PaidAmount = d.bills[bill_id].TotalAmount]],
                    TRUE, "commit", now)

apply_full_payment_to_bill(d, payment_id, bill_id, now) ==
    IF payment_id \notin 1 .. Len(d.vpay) THEN Result(d, FALSE, "payment not found", now)
    ELSE IF bill_id \notin 1 .. Len(d.bills) THEN Result(d, FALSE, "document not found", now)
    ELSE
    LET payment_amount == d.vpay[payment_id].Amount
        bill_balance   == BillBalance(d.bills[bill_id])
        bill_status    == d.bills[bill_id].Status
    IN  IF bill_status = "Paid" \/ bill_balance <= 0
        THEN Result(d, FALSE, "already paid or zero balance", now)
        ELSE IF payment_amount < bill_balance
        THEN Result(d, FALSE, "payment insufficient", now)
        ELSE Result([d EXCEPT !.bills[bill_id] =
                        [@ EXCEPT !.PaidAmount = d.bills[bill_id].TotalAmount, !.Status = "Paid"]],
                    TRUE, "commit", now)

get_total_accounts_payable(d) ==
    SumSeq([i \in 1 .. Len(d.bills) |->
        IF d.bills[i].Status \notin {"Paid", "Cancelled", "Draft"} /\ BillBalance(d.bills[i]) > 0
        THEN BillBalance(d.bills[i]) ELSE 0])

(* Variant: the eligibility checks (payments recorded, status) are missing *)
void_bill_unguarded(d, bill_id, ap_account_id, expense_account_id, now, tick) ==
    IF bill_id \notin 1 .. Len(d.bills) THEN Result(d, FALSE, "document not found", now)
    ELSE
    LET total_amount == d.bills[bill_id].TotalAmount
        bills == [d.bills EXCEPT ![bill_id] = [@ EXCEPT !.Status = "Cancelled"]]
    IN  IF total_amount > 0
        THEN LET g == _generate_gl_entries(d.gl,
                          << <<ap_account_id, total_amount, 0>>, <<expense_account_id, 0, total_amount>> >>,
                          Ref("VoidBillID", bill_id, 0), Dates(now, tick, 2))
             IN  IF g.ok
                 THEN Result([d EXCEPT !.bills = bills, !.gl = g.gl], TRUE, "commit", EndDay(now, tick))
                 ELSE Result(d, FALSE, "rollback", EndDay(now, tick))
        ELSE Result([d EXCEPT !.bills = bills], TRUE, "commit", now)

(* Variant: the reversing batch is posted, the Status is left as it was *)
void_bill_keeps_status(d, bill_id, ap_account_id, expense_account_id, now, tick) ==
    IF bill_id \notin 1 .. Len(d.bills) THEN Result(d, FALSE, "document not found", now)
    ELSE
    LET paid_amount  == d.bills[bill_id].PaidAmount
        status       == d.bills[bill_id].Status
        total_amount == d.bills[bill_id].TotalAmount
    IN  IF paid_amount > 0 THEN Result(d, FALSE, "payments recorded", now)
        ELSE IF status = "Paid" \/ status = "Cancelled" THEN Result(d, FALSE, "cannot void status", now)
        ELSE
        IF total_amount > 0
        THEN LET g == _generate_gl_entries(d.gl,
                          << <<ap_account_id, total_amount, 0>>, <<expense_account_id, 0, total_amount>> >>,
                          Ref("VoidBillID", bill_id, 0), Dates(now, tick, 2))
             IN  IF g.ok
                 THEN Result([d EXCEPT !.gl = g.gl], TRUE, "commit", EndDay(now, tick))
                 ELSE Result(d, FALSE, "rollback", EndDay(now, tick))
        ELSE Result(d, TRUE, "commit", now)

void_bill(d, bill_id, ap_account_id, expense_account_id, now, tick) ==
    IF bill_id \notin 1 .. Len(d.bills) THEN Result(d, FALSE, "document not found", now)
    ELSE
    LET paid_amount  == d.bills[bill_id].PaidAmount
        status       == d.bills[bill_id].Status
        total_amount == d.bills[bill_id].TotalAmount
    IN  IF paid_amount > 0 THEN Result(d, FALSE, "payments recorded", now)
        ELSE IF status = "Paid" \/ status = "Cancelled" THEN Result(d, FALSE, "cannot void status", now)
        ELSE
        LET bills == [d.bills EXCEPT ![bill_id] = [@ EXCEPT !.Status = "Cancelled"]]
        IN  IF total_amount > 0
            THEN LET g == _generate_gl_entries(d.gl,
                              << <<ap_account_id, total_amount, 0>>, <<expense_account_id, 0, total_amount>> >>,
                              Ref("VoidBillID", bill_id, 0), Dates(now, tick, 2))
                 IN  IF g.ok
                     THEN Result([d EXCEPT !.bills = bills, !.gl = g.gl], TRUE, "commit", EndDay(now, tick))
                     ELSE Result(d, FALSE, "rollback", EndDay(now, tick))
            ELSE Result([d EXCEPT !.bills = bills], TRUE, "commit", now)

-----------------------------------------------------------------------------
(* Reporting and fixed assets *)

(* report_date: 0 when the caller passes None (all entries) *)
TrialBalanceRow(d, account_id, report_date) ==
    LET balance_type == ChartOfAccounts[account_id].BalanceType
        rows == SelectSeq(d.gl, LAMBDA r :
                    r.AccountID = account_id /\ (report_date = 0 \/ r.EntryDate <= report_date))
        debit_sum  == DebitsOf(rows)
        credit_sum == CreditsOf(rows)
        balance == IF balance_type = "Debit" THEN debit_sum - credit_sum
                   ELSE IF balance_type = "Credit" THEN credit_sum - debit_sum
                   ELSE debit_sum - credit_sum
    IN  IF balance > 0
        THEN IF balance_type = "Debit"
             THEN [AccountID |-> account_id, Debit |-> balance, Credit |-> 0]
             ELSE [AccountID |-> account_id, Debit |-> 0, Credit |-> balance]
        ELSE IF balance < 0
        THEN IF balance_type = "Debit"
             THEN [AccountID |-> account_id, Debit |-> 0, Credit |-> 0 - balance]
             ELSE [AccountID |-> account_id, Debit |-> 0 - balance, Credit |-> 0]
        ELSE [AccountID |-> account_id, Debit |-> 0, Credit |-> 0]

ActiveAccounts == {a \in AccountIDs : ChartOfAccounts[a].IsActive = 1}

RECURSIVE SumOver(_, _)
SumOver(S, f) ==
    IF S = {} THEN 0
    ELSE LET x == CHOOSE y \in S : TRUE IN f[x] + SumOver(S \ {x}, f)

generate_trial_balance(d, report_date) ==
    LET accounts == [a \in ActiveAccounts |-> TrialBalanceRow(d, a, report_date)]
    IN  [accounts |-> accounts,
         totals |-> [debit  |-> SumOver(ActiveAccounts, [a \in ActiveAccounts |-> accounts[a].Debit]),
                     credit |-> SumOver(ActiveAccounts, [a \in ActiveAccounts |-> accounts[a].Credit])]]

record_fixed_asset_purchase(d, asset_name, purchase_cost, asset_account_id, cash_or_ap_account_id, now, tick) ==
    IF purchase_cost <= 0 THEN Result(d, FALSE, "ValueError", now)
    ELSE
    LET g == _generate_gl_entries(d.gl,
                 << <<asset_account_id, purchase_cost, 0>>, <<cash_or_ap_account_id, 0, purchase_cost>> >>,
                 Ref("Asset", asset_name, 0), Dates(now, tick, 2))
    IN  IF g.ok
        THEN Result([d EXCEPT !.gl = g.gl], TRUE, "commit", EndDay(now, tick))
        ELSE Result(d, FALSE, "rollback", EndDay(now, tick))

-----------------------------------------------------------------------------
(* State machine: one action per public operation.  An action runs the     *)
(* whole handler on arguments drawn from the given sets and records the    *)
(* call and what the caller got back in `last`.                            *)

EmptyDB ==
    [bank      |-> [b \in BankAccountIDs |-> 0],
     gl        |-> <<>>,
     ct        |-> <<>>,
     inv       |-> <<>>,
     invItems  |-> <<>>,
     bills     |-> <<>>,
     billItems |-> <<>>,
     cpay      |-> <<>>,
     vpay      |-> <<>>]

(* No transaction is open *)
NoTx == [open |-> FALSE]

Init ==
    /\ db = EmptyDB
    /\ today = 1
    /\ last = [op |-> "none", args |-> <<>>, ok |-> TRUE, rc |-> "none"]
    /\ tx = NoTx

Do(op, args, r) ==
    /\ db' = r.db
    /\ today' = r.today
    /\ last' = [op |-> op, args |-> args, ok |-> r.ok, rc |-> r.rc]
    /\ tx' = tx

(* Quantity, unit price and tax rate of the single line item: totals 0 ..  *)
(* MaxAmount, and one line with quantity 0.                                *)
LineItems ==
    {<<1, p, 0>> : p \in 0 .. (MaxAmount - 1)} \cup {<<1, MaxAmount \div 2, 100>>, <<0, 1, 0>>}

Midnight ==
    /\ today < MaxDay
    /\ today' = today + 1
    /\ UNCHANGED <<db, last, tx>>

CashReceipt(amounts, banks, cashs, incomes, ticks) ==
    \E amount \in amounts, bank \in banks, cash \in cashs, income \in incomes, tick \in ticks :
        Do("record_simple_cash_receipt",
           [amount |-> amount, bank |-> bank, cash |-> cash, contra |-> income],
           record_simple_cash_receipt(db, amount, bank, cash, income, today, tick))

CashDisbursement(amounts, banks, cashs, expenses, ticks) ==
    \E amount \in amounts, bank \in banks, cash \in cashs, expense \in expenses, tick \in ticks :
        Do("record_simple_cash_disbursement",
           [amount |-> amount, bank |-> bank, cash |-> cash, contra |-> expense],
           record_simple_cash_disbursement(db, amount, bank, cash, expense, today, tick))

ManualJournal(amounts, pairs, references, ticks) ==
    \E amount \in amounts, pair \in pairs, reference \in references, tick \in ticks :
        Do("post_simple_manual_journal_entry",
           [amount |-> amount, debit |-> pair[1], credit |-> pair[2]],
           post_simple_manual_journal_entry(db, today, pair[1], pair[2], amount, reference, today, tick))

BankTransfer(amounts, banks, ticks) ==
    \E amount \in amounts, source \in banks, target \in banks, tick \in ticks :
        Do("record_bank_transfer",
           [amount |-> amount, bank |-> source, cash |-> CashAccountOf(source),
            target_bank |-> target, contra |-> CashAccountOf(target)],
           record_bank_transfer(db, amount, source, CashAccountOf(source), target, CashAccountOf(target), today, tick))

CreateInvoice(customers, items, numbers, revenues, ars, ticks) ==
    \E customer \in customers, item \in items, number \in numbers,
       revenue \in revenues, ar \in ars, tick \in ticks :
        Do("create_simple_sales_invoice",
           [party |-> customer, item |-> item, number |-> number, debit |-> ar, credit |-> revenue],
           create_simple_sales_invoice(db, customer, today, item[1], item[2], revenue, ar, number, item[3], today, tick))

CustomerPayment(customers, amounts, banks, cashs, ars, ticks) ==
    \E customer \in customers, amount \in amounts, bank \in banks, cash \in cashs, ar \in ars, tick \in ticks :
        Do("record_simple_customer_payment",
           [amount |-> amount, bank |-> bank, cash |-> cash, contra |-> ar],
           record_simple_customer_payment(db, customer, amount, bank, cash, ar, today, tick))

ApplyToInvoice ==
    \E payment_id \in 1 .. (Len(db.cpay) + 1), invoice_id \in 1 .. (Len(db.inv) + 1) :
        Do("apply_full_payment_to_invoice",
           [payment_id |-> payment_id, id |-> invoice_id],
           apply_full_payment_to_invoice(db, payment_id, invoice_id, today))

VoidInvoice(ars, revenues, ticks) ==
    \E invoice_id \in 1 .. (Len(db.inv) + 1), ar \in ars, revenue \in revenues, tick \in ticks :
        Do("void_invoice",
           [id |-> invoice_id, debit |-> revenue, credit |-> ar],
           void_invoice(db, invoice_id, ar, revenue, today, tick))

EnterBill(vendors, numbers, items, expenses, aps, ticks) ==
    \E vendor \in vendors, number \in numbers, item \in items,
       expense \in expenses, ap \in aps, tick \in ticks :
        Do("enter_simple_vendor_bill",
           [party |-> vendor, item |-> item, number |-> number, debit |-> expense, credit |-> ap],
           enter_simple_vendor_bill(db, vendor, number, today, item[1], item[2], expense, ap, item[3], today, tick))

VendorPayment(vendors, amounts, banks, cashs, aps, ticks) ==
    \E vendor \in vendors, amount \in amounts, bank \in banks, cash \in cashs, ap \in aps, tick \in ticks :
        Do("record_simple_vendor_payment",
           [amount |-> amount, bank |-> bank, cash |-> cash, contra |-> ap],
           record_simple_vendor_payment(db, vendor, amount, bank, cash, ap, today, tick))

ApplyToBill ==
    \E payment_id \in 1 .. (Len(db.vpay) + 1), bill_id \in 1 .. (Len(db.bills) + 1) :
        Do("apply_full_payment_to_bill",
           [payment_id |-> payment_id, id |-> bill_id],
           apply_full_payment_to_bill(db, payment_id, bill_id, today))

VoidBill(aps, expenses, ticks) ==
    \E bill_id \in 1 .. (Len(db.bills) + 1), ap \in aps, expense \in expenses, tick \in ticks :
        Do("void_bill",
           [id |-> bill_id, debit |-> ap, credit |-> expense],
           void_bill(db, bill_id, ap, expense, today, tick))

AssetPurchase(names, amounts, assets, pays, ticks) ==
    \E name \in names, amount \in amounts, asset \in assets, pay \in pays, tick \in ticks :
        Do("record_fixed_asset_purchase",
           [amount |-> amount, debit |-> asset, credit |-> pay],
           record_fixed_asset_purchase(db, name, amount, asset, pay, today, tick))

(* A rejected call gives back the database it was given (the rejection    *)
(* claims check this on the rejecting step itself), so whatever can follow *)
(* it can follow the state before it: the search goes on from accepted     *)
(* calls only.  Every batch of a public operation has two rows.            *)
Within(batches) ==
    /\ Len(db'.gl) <= 2 * batches
    /\ today' <= MaxDay

(* All public operations, called with the accounts in their usual roles;   *)
(* the clock stands still.                                                 *)
Next ==
    /\ last.ok
    /\ \/ CashReceipt(0 .. MaxAmount, {1}, {1}, {4}, {FALSE})
       \/ CashDisbursement(0 .. MaxAmount, {2}, {2}, {6}, {FALSE})
       \/ ManualJournal(0 .. 1, {<<1, 4>>, <<6, 7>>, <<3, 3>>}, {0}, {FALSE})
       \/ BankTransfer(0 .. 1, BankAccountIDs, {FALSE})
       \/ CreateInvoice({1}, LineItems, {NoNumber, InvNum("INV-", 1, 4)}, {4}, {3}, {FALSE})
       \/ CustomerPayment({1}, 0 .. MaxAmount, {1}, {1}, {3}, {FALSE})
       \/ ApplyToInvoice
       \/ VoidInvoice({3}, {4}, {FALSE})
       \/ EnterBill({1}, {1, 2}, LineItems, {6}, {5}, {FALSE})
       \/ VendorPayment({1}, 0 .. MaxAmount, {2}, {2}, {5}, {FALSE})
       \/ ApplyToBill
       \/ VoidBill({5}, {6}, {FALSE})
       \/ AssetPurchase({1}, 0 .. 1, {6}, {1, 5}, {FALSE})
    /\ Within(MaxPostings)

Spec == Init /\ [][Next]_vars

(* The posting operations with the clock running: days pass between calls, *)
(* and midnight may pass between the two INSERTs of a batch.               *)
NextClock ==
    /\ last.ok
    /\ \/ Midnight
       \/ CashReceipt({1}, {1}, {1}, {4}, BOOLEAN)
       \/ CashDisbursement({1}, {2}, {2}, {6}, BOOLEAN)
       \/ ManualJournal({1}, {<<1, 4>>, <<6, 7>>}, {0}, BOOLEAN)
       \/ BankTransfer({1}, BankAccountIDs, BOOLEAN)
       \/ CreateInvoice({1}, LineItems, {NoNumber}, {4}, {3}, BOOLEAN)
       \/ CustomerPayment({1}, {1}, {1}, {1}, {3}, BOOLEAN)
       \/ VoidInvoice({3}, {4}, BOOLEAN)
       \/ EnterBill({1}, {Len(db.bills) + 1}, LineItems, {6}, {5}, BOOLEAN)
       \/ VendorPayment({1}, {1}, {2}, {2}, {5}, BOOLEAN)
       \/ VoidBill({5}, {6}, BOOLEAN)
       \/ AssetPurchase({1}, {1}, {6}, {1, 5}, BOOLEAN)
    /\ Within(MaxPostings)

SpecClock == Init /\ [][NextClock]_vars

(* The five cash-affecting operations, the caller free to name any of the  *)
(* debit-polarity accounts 1, 2, 3 as the cash account and any of 1, 3, 4  *)
(* as the other side.                                                      *)
NextCash ==
    /\ last.ok
    /\ \/ CashReceipt(0 .. MaxAmount, BankAccountIDs, {1, 3}, {1, 4}, {FALSE})
       \/ CashDisbursement(0 .. MaxAmount, BankAccountIDs, {1, 3}, {1, 4}, {FALSE})
       \/ BankTransfer(0 .. MaxAmount, BankAccountIDs, {FALSE})
       \/ CustomerPayment({1}, 0 .. MaxAmount, {1}, {1}, {1, 3}, {FALSE})
       \/ VendorPayment({1}, 0 .. MaxAmount, {2}, {2}, {2, 5}, {FALSE})
    /\ Within(MaxPostings)

SpecCash == Init /\ [][NextCash]_vars

(* The document lifecycle: create, record payment, apply payment, void,    *)
(* for invoices and for bills.                                             *)
NextDocs ==
    /\ last.ok
    /\ \/ CreateInvoice({1}, LineItems, {NoNumber}, {4}, {3}, {FALSE})
       \/ CustomerPayment({1}, {1, MaxAmount}, {1}, {1}, {3}, {FALSE})
       \/ ApplyToInvoice
       \/ VoidInvoice({3}, {4}, {FALSE})
       \/ EnterBill({1}, {Len(db.bills) + 1}, LineItems, {6}, {5}, {FALSE})
       \/ VendorPayment({1}, {1, MaxAmount}, {2}, {2}, {5}, {FALSE})
       \/ ApplyToBill
       \/ VoidBill({5}, {6}, {FALSE})
    /\ Within(MaxBatches)

SpecDocs == Init /\ [][NextDocs]_vars

(* The posting engine handed batches of one or two lines, balanced or not, *)
(* next to two public operations.                                          *)
BatchLines == {<<a, dr, cr>> : a \in {1, 4}, dr \in 0 .. 1, cr \in 0 .. 1}

Batches == {<<l>> : l \in {<<1, 1, 0>>, <<1, 1, 1>>}} \cup {<<l, m>> : l \in BatchLines, m \in BatchLines}

PostBatch(batches, ticks) ==
    \E gl_entries \in batches, tick \in ticks :
        Do("post_in_transaction",
           [amount |-> 1, bank |-> 1, entries |-> gl_entries],
           post_in_transaction(db, 1, 1, gl_entries, today, tick))

NextEngine ==
    /\ last.ok
    /\ \/ PostBatch(Batches, {FALSE})
       \/ CashReceipt(0 .. MaxAmount, {1}, {1}, {4}, {FALSE})
       \/ ManualJournal(0 .. 1, {<<1, 4>>, <<3, 3>>}, {0}, {FALSE})
    /\ Within(MaxPostings)

SpecEngine == Init /\ [][NextEngine]_vars


-----------------------------------------------------------------------------
(* Properties *)

(* The rows a step appends to the ledger *)
NewRows == SubSeq(db'.gl, Len(db.gl) + 1, Len(db'.gl))

InSeq(x, s) == \E k \in 1 .. Len(s) : s[k] = x

(* C1: in every committed state reached by any sequence of public posting  *)
(* operations, accepted or rejected, the debit amounts of all ledger rows  *)
(* sum to the same as their credit amounts; every call leaves the rows     *)
(* already in the ledger as they were, and the rows it appends have equal  *)
(* debit and credit sums.                                                  *)
C1_LedgerBalanced ==
    /\ DebitsOf(db.gl) = CreditsOf(db.gl)
    /\ [][/\ DebitsOf(db'.gl) = CreditsOf(db'.gl)
          /\ SubSeq(db'.gl, 1, Len(db.gl)) = db.gl
          /\ DebitsOf(NewRows) = CreditsOf(NewRows)]_vars

(* A rejected call on a ledger that holds MaxPostings batches of money *)
C1_Witness ==
    /\ ~last.ok
    /\ Len(db.gl) = 2 * MaxPostings
    /\ DebitsOf(db.gl) > 0

(* C2: after any sequence of successful postings the trial balance has     *)
(* totals.debit = totals.credit, with no as-of date (report_date 0) and    *)
(* with every as-of date.                                                  *)
C2_TrialBalanceBalanced ==
    \A report_date \in 0 .. MaxDay :
        LET tb == generate_trial_balance(db, report_date)
        IN  tb.totals.debit = tb.totals.credit

(* C3: when the lines handed to the posting engine have unequal debit and  *)
(* credit sums, the calling operation reports failure and commits nothing: *)
(* none of the batch's lines, no cash transaction row, no bank balance     *)
(* change.                                                                 *)
Unbalanced(entries) ==
    SumSeq([i \in 1 .. Len(entries) |-> entries[i][2]]) # SumSeq([i \in 1 .. Len(entries) |-> entries[i][3]])

C3_UnbalancedBatchRejected ==
    [][(last'.op = "post_in_transaction" /\ Unbalanced(last'.args.entries))
           => (~last'.ok /\ db' = db)]_vars

(* An unbalanced batch was rejected on a ledger that already holds rows *)
C3_Witness ==
    /\ last.op = "post_in_transaction"
    /\ Unbalanced(last.args.entries)
    /\ last.rc = "rollback"
    /\ Len(db.gl) > 0

(* C4: the cached CurrentBalance of every bank account equals the balance  *)
(* derived from the ledger rows of its linked cash account, under all      *)
(* posting operations.                                                     *)
C4_BankMatchesLedger ==
    \A b \in BankAccountIDs :
        view_bank_account_balance(db, b) = view_gl_account_balance(db, CashAccountOf(b))

(* C5: every successful cash-affecting operation changes the cached bank   *)
(* balance and the derived balance of the debit-polarity cash account it   *)
(* names by the same signed amount (+ receipt, customer payment, transfer  *)
(* target; - disbursement, vendor payment, transfer source), posts the     *)
(* other line to the account the caller named, and a transfer leaves the   *)
(* sum of the two bank balances unchanged.                                 *)
CashOps ==
    {"record_simple_cash_receipt", "record_simple_cash_disbursement",
     "record_simple_customer_payment", "record_simple_vendor_payment", "record_bank_transfer"}

Sign(op) ==
    IF op \in {"record_simple_cash_receipt", "record_simple_customer_payment"} THEN 1 ELSE -1

C5_CashStep ==
    LET op == last'.op
        a  == last'.args
    IN  (op \in CashOps /\ last'.ok /\ ChartOfAccounts[a.cash].BalanceType = "Debit") =>
            /\ db'.bank[a.bank] - db.bank[a.bank] = Sign(op) * a.amount
            /\ view_gl_account_balance(db', a.cash) - view_gl_account_balance(db, a.cash)
                   = Sign(op) * a.amount
            /\ \E k \in 1 .. Len(NewRows) :
                   /\ NewRows[k].AccountID = a.contra
                   /\ NewRows[k].DebitAmount + NewRows[k].CreditAmount = a.amount
            /\ op = "record_bank_transfer" =>
                   /\ db'.bank[a.target_bank] - db.bank[a.target_bank] = a.amount
                   /\ view_gl_account_balance(db', a.contra) - view_gl_account_balance(db, a.contra)
                          = a.amount
                   /\ db'.bank[a.bank] + db'.bank[a.target_bank]
                          = db.bank[a.bank] + db.bank[a.target_bank]

C5_CashMovesBankAndLedgerAlike == [][C5_CashStep]_vars


(* C6: Paid is terminal.  No step changes the Status, PaidAmount, Balance  *)
(* or TotalAmount of an invoice or a bill whose Status is Paid.            *)
C6_PaidStep ==
    /\ \A i \in 1 .. Len(db.inv) :
           db.inv[i].Status = "Paid" =>
               /\ i <= Len(db'.inv)
               /\ db'.inv[i].Status = "Paid"
               /\ db'.inv[i].PaidAmount = db.inv[i].PaidAmount
               /\ db'.inv[i].Balance = db.inv[i].Balance
               /\ db'.inv[i].TotalAmount = db.inv[i].TotalAmount
    /\ \A i \in 1 .. Len(db.bills) :
           db.bills[i].Status = "Paid" =>
               /\ i <= Len(db'.bills)
               /\ db'.bills[i].Status = "Paid"
               /\ db'.bills[i].PaidAmount = db.bills[i].PaidAmount
               /\ BillBalance(db'.bills[i]) = BillBalance(db.bills[i])
               /\ db'.bills[i].TotalAmount = db.bills[i].TotalAmount

C6_PaidIsTerminal == [][C6_PaidStep]_vars

(* A void was attempted on a Paid bill *)
C6_Witness ==
    /\ last.op = "void_bill"
    /\ last.args.id \in 1 .. Len(db.bills)
    /\ db.bills[last.args.id].Status = "Paid"

(* C7: Cancelled is terminal.  No step changes the Status, PaidAmount or   *)
(* Balance of an invoice or a bill whose Status is Cancelled; in           *)
(* particular applying a sufficient payment to it changes nothing.         *)
C7_CancelledStep ==
    /\ \A i \in 1 .. Len(db.inv) :
           db.inv[i].Status = "Cancelled" =>
               /\ i <= Len(db'.inv)
               /\ db'.inv[i].Status = "Cancelled"
               /\ db'.inv[i].PaidAmount = db.inv[i].PaidAmount
               /\ db'.inv[i].Balance = db.inv[i].Balance
    /\ \A i \in 1 .. Len(db.bills) :
           db.bills[i].Status = "Cancelled" =>
               /\ i <= Len(db'.bills)
               /\ db'.bills[i].Status = "Cancelled"
               /\ db'.bills[i].PaidAmount = db.bills[i].PaidAmount
               /\ BillBalance(db'.bills[i]) = BillBalance(db.bills[i])

C7_CancelledIsTerminal == [][C7_CancelledStep]_vars

(* C8: apply-payment called with an existing payment and an existing       *)
(* document that is not Paid, has Balance > 0 and a payment amount of at   *)
(* least the Balance succeeds; it sets PaidAmount = TotalAmount, Balance   *)
(* = 0 and Status = Paid on that document and changes nothing else,        *)
(* whatever the payment amount; and no Paid document is in its party's     *)
(* list of open documents.                                                 *)
ApplyInvoiceAccepts(d, a) ==
    /\ a.payment_id \in 1 .. Len(d.cpay)
    /\ a.id \in 1 .. Len(d.inv)
    /\ d.inv[a.id].Status # "Paid"
    /\ d.inv[a.id].Balance > 0
    /\ d.cpay[a.payment_id].Amount >= d.inv[a.id].Balance

ApplyBillAccepts(d, a) ==
    /\ a.payment_id \in 1 .. Len(d.vpay)
    /\ a.id \in 1 .. Len(d.bills)
    /\ d.bills[a.id].Status # "Paid"
    /\ BillBalance(d.bills[a.id]) > 0
    /\ d.vpay[a.payment_id].Amount >= BillBalance(d.bills[a.id])

C8_ApplyStep ==
    LET a == last'.args
    IN  /\ (last'.op = "apply_full_payment_to_invoice" /\ ApplyInvoiceAccepts(db, a)) =>
               /\ last'.ok
               /\ db'.inv[a.id].PaidAmount = db.inv[a.id].TotalAmount
               /\ db'.inv[a.id].TotalAmount = db.inv[a.id].TotalAmount
               /\ db'.inv[a.id].Balance = 0
               /\ db'.inv[a.id].Status = "Paid"
               /\ db' = [db EXCEPT !.inv[a.id] = db'.inv[a.id]]
        /\ (last'.op = "apply_full_payment_to_bill" /\ ApplyBillAccepts(db, a)) =>
               /\ last'.ok
               /\ db'.bills[a.id].PaidAmount = db.bills[a.id].TotalAmount
               /\ db'.bills[a.id].TotalAmount = db.bills[a.id].TotalAmount
               /\ BillBalance(db'.bills[a.id]) = 0
               /\ db'.bills[a.id].Status = "Paid"
               /\ db' = [db EXCEPT !.bills[a.id] = db'.bills[a.id]]
        /\ \A i \in 1 .. Len(db'.inv) :
               db'.inv[i].Status = "Paid" =>
                   ~InSeq(i, list_open_customer_invoices(db', db'.inv[i].CustomerID))
        /\ \A i \in 1 .. Len(db'.bills) :
               db'.bills[i].Status = "Paid" =>
                   ~InSeq(i, list_open_vendor_bills(db', db'.bills[i].VendorID))

C8_ApplySettlesThatDocument == [][C8_ApplyStep]_vars

(* One of two invoices was settled by a payment larger than its total *)
C8_Witness ==
    /\ last.op = "apply_full_payment_to_invoice"
    /\ last.ok
    /\ Len(db.inv) >= 2
    /\ db.cpay[last.args.payment_id].Amount > db.inv[last.args.id].TotalAmount

(* C9: apply-payment with a payment amount below the document's Balance is *)
(* rejected and leaves the document, the payment, the ledger and the bank  *)
(* balances as they were.                                                  *)
C9_InsufficientStep ==
    LET a == last'.args
    IN  /\ ( /\ last'.op = "apply_full_payment_to_invoice"
             /\ a.payment_id \in 1 .. Len(db.cpay)
             /\ a.id \in 1 .. Len(db.inv)
             /\ db.cpay[a.payment_id].Amount < db.inv[a.id].Balance ) =>
               (~last'.ok /\ db' = db)
        /\ ( /\ last'.op = "apply_full_payment_to_bill"
             /\ a.payment_id \in 1 .. Len(db.vpay)
             /\ a.id \in 1 .. Len(db.bills)
             /\ db.vpay[a.payment_id].Amount < BillBalance(db.bills[a.id]) ) =>
               (~last'.ok /\ db' = db)

C9_InsufficientPaymentRejected == [][C9_InsufficientStep]_vars

(* A payment smaller than the bill's balance was refused *)
C9_Witness ==
    /\ last.op = "apply_full_payment_to_bill"
    /\ last.rc = "payment insufficient"
    /\ db.vpay[last.args.payment_id].Amount < BillBalance(db.bills[last.args.id])

(* C10: apply-payment on a document that is already Paid, or whose Balance *)
(* is zero or negative, or with a payment id or document id that does not  *)
(* exist, is rejected and changes no state.                                *)
C10_NotPayableStep ==
    LET a == last'.args
    IN  /\ ( /\ last'.op = "apply_full_payment_to_invoice"
             /\ \/ a.payment_id \notin 1 .. Len(db.cpay)
                \/ a.id \notin 1 .. Len(db.inv)
                \/ db.inv[a.id].Status = "Paid"
                \/ db.inv[a.id].Balance <= 0 ) =>
               (~last'.ok /\ db' = db)
        /\ ( /\ last'.op = "apply_full_payment_to_bill"
             /\ \/ a.payment_id \notin 1 .. Len(db.vpay)
                \/ a.id \notin 1 .. Len(db.bills)
                \/ db.bills[a.id].Status = "Paid"
                \/ BillBalance(db.bills[a.id]) <= 0 ) =>
               (~last'.ok /\ db' = db)

C10_NotPayableRejected == [][C10_NotPayableStep]_vars

(* A second payment was refused on an invoice that is already Paid *)
C10_Witness ==
    /\ last.op = "apply_full_payment_to_invoice"
    /\ last.rc = "already paid or zero balance"
    /\ db.inv[last.args.id].Status = "Paid"


(* C11: a successful void of an unpaid Issued invoice or Received bill     *)
(* leaves the document with Status = Cancelled, Balance = 0 and            *)
(* PaidAmount = 0, and its TotalAmount as it was.                          *)
C11_VoidStep ==
    LET a == last'.args
    IN  /\ (last'.op = "void_invoice" /\ last'.ok) =>
               /\ db'.inv[a.id].Status = "Cancelled"
               /\ db'.inv[a.id].Balance = 0
               /\ db'.inv[a.id].PaidAmount = 0
               /\ db'.inv[a.id].TotalAmount = db.inv[a.id].TotalAmount
        /\ (last'.op = "void_bill" /\ last'.ok) =>
               /\ db'.bills[a.id].Status = "Cancelled"
               /\ BillBalance(db'.bills[a.id]) = 0
               /\ db'.bills[a.id].PaidAmount = 0
               /\ db'.bills[a.id].TotalAmount = db.bills[a.id].TotalAmount

C11_VoidCancelsAndZeroes == [][C11_VoidStep]_vars


(* C12: a successful void of a document with TotalAmount > 0 appends       *)
(* exactly one balanced batch of two lines, under a reference that differs *)
(* from the creation batch's reference, crediting what creation debited    *)
(* and debiting what creation credited for the same total; when void is    *)
(* given the accounts used at creation, the creation batch and the         *)
(* reversing batch together change no account's balance.  A successful     *)
(* void of a document with TotalAmount = 0 appends no ledger row.          *)
RowsWithReference(gl, reference) == SelectSeq(gl, LAMBDA r : r.Reference = reference)

NetOf(rows, account_id) ==
    DebitsOf(RowsOfAccount(rows, account_id)) - CreditsOf(RowsOfAccount(rows, account_id))

Reverses(creation, reversal, debit, credit, total) ==
    /\ Len(reversal) = 2
    /\ DebitsOf(reversal) = total
    /\ CreditsOf(reversal) = total
    /\ \A k \in 1 .. 2 : reversal[k].Reference \notin {creation[j].Reference : j \in 1 .. Len(creation)}
    /\ reversal[1].Reference = reversal[2].Reference
    /\ \E k \in 1 .. 2 : reversal[k].AccountID = debit /\ reversal[k].DebitAmount = total
    /\ \E k \in 1 .. 2 : reversal[k].AccountID = credit /\ reversal[k].CreditAmount = total
    /\ ( /\ Len(creation) = 2
         /\ \E j \in 1 .. 2 : creation[j].AccountID = credit /\ creation[j].DebitAmount = total
         /\ \E j \in 1 .. 2 : creation[j].AccountID = debit /\ creation[j].CreditAmount = total )
       => \A account_id \in AccountIDs : NetOf(creation \o reversal, account_id) = 0

C12_VoidStep ==
    LET a == last'.args
    IN  /\ (last'.op = "void_invoice" /\ last'.ok) =>
               IF db.inv[a.id].TotalAmount > 0
               THEN Reverses(RowsWithReference(db.gl, Ref("InvoiceID", a.id, 0)), NewRows,
                             a.debit, a.credit, db.inv[a.id].TotalAmount)
               ELSE NewRows = <<>>
        /\ (last'.op = "void_bill" /\ last'.ok) =>
               IF db.bills[a.id].TotalAmount > 0
               THEN Reverses(RowsWithReference(db.gl, Ref("BillID", a.id, 0)), NewRows,
                             a.debit, a.credit, db.bills[a.id].TotalAmount)
               ELSE NewRows = <<>>

C12_VoidReversesCreation == [][C12_VoidStep]_vars

(* An invoice with the largest total, tax included, was voided *)
C12_Witness ==
    /\ last.op = "void_invoice"
    /\ last.ok
    /\ db.inv[last.args.id].TotalAmount = MaxAmount
    /\ Len(RowsWithReference(db.gl, Ref("VoidInvoiceID", last.args.id, 0))) = 2


(* C13: void of a document that has PaidAmount > 0, or Status Paid or      *)
(* Cancelled, or of an id that does not exist, reports failure, leaves     *)
(* every field of the document as it was and appends no ledger row (the    *)
(* whole database is unchanged).                                           *)
C13_VoidRefusedStep ==
    LET a == last'.args
    IN  /\ ( /\ last'.op = "void_invoice"
             /\ \/ a.id \notin 1 .. Len(db.inv)
                \/ db.inv[a.id].PaidAmount > 0
                \/ db.inv[a.id].Status \in {"Paid", "Cancelled"} ) =>
               (~last'.ok /\ db' = db)
        /\ ( /\ last'.op = "void_bill"
             /\ \/ a.id \notin 1 .. Len(db.bills)
                \/ db.bills[a.id].PaidAmount > 0
                \/ db.bills[a.id].Status \in {"Paid", "Cancelled"} ) =>
               (~last'.ok /\ db' = db)

C13_VoidOfSettledRefused == [][C13_VoidRefusedStep]_vars

(* A second void was refused on an invoice that is already Cancelled *)
C13_Witness ==
    /\ last.op = "void_invoice"
    /\ last.rc = "cannot void status"
    /\ db.inv[last.args.id].Status = "Cancelled"
    /\ db.inv[last.args.id].TotalAmount > 0


(* C14: a successful create_simple_sales_invoice / enter_simple_vendor_bill *)
(* adds one document with TotalAmount = quantity * unit_price + quantity *  *)
(* unit_price * tax_rate / 100, PaidAmount = 0, Balance = TotalAmount,      *)
(* Status Issued (invoice) or Received (bill), and exactly one line item.   *)
TotalIs(total, item) ==
    100 * total = 100 * item[1] * item[2] + item[1] * item[2] * item[3]

C14_CreateStep ==
    LET a == last'.args
    IN  /\ (last'.op = "create_simple_sales_invoice" /\ last'.ok) =>
               LET invoice_id == Len(db.inv) + 1
               IN  /\ Len(db'.inv) = invoice_id
                   /\ TotalIs(db'.inv[invoice_id].TotalAmount, a.item)
                   /\ db'.inv[invoice_id].PaidAmount = 0
                   /\ db'.inv[invoice_id].Balance = db'.inv[invoice_id].TotalAmount
                   /\ db'.inv[invoice_id].Status = "Issued"
                   /\ Cardinality({k \in 1 .. Len(db'.invItems) : db'.invItems[k].InvoiceID = invoice_id}) = 1
        /\ (last'.op = "enter_simple_vendor_bill" /\ last'.ok) =>
               LET bill_id == Len(db.bills) + 1
               IN  /\ Len(db'.bills) = bill_id
                   /\ TotalIs(db'.bills[bill_id].TotalAmount, a.item)
                   /\ db'.bills[bill_id].PaidAmount = 0
                   /\ BillBalance(db'.bills[bill_id]) = db'.bills[bill_id].TotalAmount
                   /\ db'.bills[bill_id].Status = "Received"
                   /\ Cardinality({k \in 1 .. Len(db'.billItems) : db'.billItems[k].BillID = bill_id}) = 1

C14_CreatedDocument == [][C14_CreateStep]_vars

(* A second bill was entered, with tax on a positive subtotal *)
C14_Witness ==
    /\ last.op = "enter_simple_vendor_bill"
    /\ last.ok
    /\ last.args.item[3] > 0
    /\ Len(db.bills) = 2
    /\ db.bills[2].TotalAmount > last.args.item[1] * last.args.item[2]


-----------------------------------------------------------------------------
(* Document creation with the caller free to name either of the accounts   *)
(* 3 (receivable, Debit) and 4 (revenue, Credit) on each side of an        *)
(* invoice, and either of 5 (payable, Credit) and 6 (expense, Debit) on    *)
(* each side of a bill.                                                    *)
NextCreate ==
    /\ last.ok
    /\ \/ CreateInvoice({1}, LineItems, {NoNumber}, {3, 4}, {3, 4}, {FALSE})
       \/ EnterBill({1}, {Len(db.bills) + 1}, LineItems, {5, 6}, {5, 6}, {FALSE})
    /\ Within(MaxPostings)

SpecCreate == Init /\ [][NextCreate]_vars

(* C15: a successful creation appends exactly one balanced batch of two    *)
(* lines for the full total, tax included: a debit to the account named as *)
(* AR (invoice) or expense (bill) and a credit to the account named as     *)
(* revenue (invoice) or AP (bill).  When the debited account has Debit     *)
(* polarity and the credited account Credit polarity, the derived balance  *)
(* of each rises by TotalAmount and no other account's balance changes.    *)
PostsCreation(rows, debit, credit, total) ==
    /\ Len(rows) = 2
    /\ rows[1].Reference = rows[2].Reference
    /\ rows[1].AccountID = debit /\ rows[1].DebitAmount = total /\ rows[1].CreditAmount = 0
    /\ rows[2].AccountID = credit /\ rows[2].DebitAmount = 0 /\ rows[2].CreditAmount = total
    /\ ( ChartOfAccounts[debit].BalanceType = "Debit" /\ ChartOfAccounts[credit].BalanceType = "Credit" )
       => \A account_id \in AccountIDs :
              view_gl_account_balance(db', account_id) - view_gl_account_balance(db, account_id)
                  = IF account_id \in {debit, credit} THEN total ELSE 0

C15_CreateStep ==
    LET a == last'.args
    IN  /\ (last'.op = "create_simple_sales_invoice" /\ last'.ok) =>
               PostsCreation(NewRows, a.debit, a.credit, db'.inv[Len(db'.inv)].TotalAmount)
        /\ (last'.op = "enter_simple_vendor_bill" /\ last'.ok) =>
               PostsCreation(NewRows, a.debit, a.credit, db'.bills[Len(db'.bills)].TotalAmount)

C15_CreationPostsTotal == [][C15_CreateStep]_vars

(* A taxed invoice was created on AR 3 and revenue 4 after an earlier      *)
(* posting to the same accounts                                            *)
C15_Witness ==
    /\ last.op = "create_simple_sales_invoice"
    /\ last.ok
    /\ last.args.debit = 3 /\ last.args.credit = 4
    /\ last.args.item[3] > 0
    /\ db.inv[Len(db.inv)].TotalAmount > 0
    /\ Len(db.gl) = 4
    /\ view_gl_account_balance(db, 3) > db.inv[Len(db.inv)].TotalAmount


-----------------------------------------------------------------------------
(* The operations statement by statement.  A handler's transaction is the   *)
(* sequence of statements it executes between BEGIN and COMMIT on the        *)
(* database d it finds; a raise statement stands for the exception, or the   *)
(* explicit rollback-and-return, that ends the transaction without commit.   *)
(* Every statement is run with the commit flag left at its default False.    *)

(* Variant: the INSERT is run with commit=True *)
Insert_committed(table, row) == [kind |-> "insert", table |-> table, key |-> 0, val |-> row, commit |-> TRUE]

Insert(table, row) == [kind |-> "insert", table |-> table, key |-> 0, val |-> row, commit |-> FALSE]

UpdateBank(bank_account_id, delta) ==
    [kind |-> "update_bank", table |-> "bank", key |-> bank_account_id, val |-> delta, commit |-> FALSE]

UpdateDoc(table, id, row) ==
    [kind |-> "update_doc", table |-> table, key |-> id, val |-> row, commit |-> FALSE]

Raise(rc) == [kind |-> "raise", table |-> "none", key |-> 0, val |-> rc, commit |-> FALSE]

(* The working database after a write statement *)
Execute(w, s) ==
    CASE s.kind = "insert"      -> [w EXCEPT ![s.table] = Append(@, s.val)]
      [] s.kind = "update_bank" -> [w EXCEPT !.bank[s.key] = @ + s.val]
      [] s.kind = "update_doc"  -> [w EXCEPT ![s.table][s.key] = s.val]

(* Variant: every statement is committed as it runs *)
_execute_sql_autocommit(d, w, s) ==
    LET written == Execute(w, s)
    IN  [work |-> written, db |-> written]

(* _execute_sql runs one statement on the connection: the open transaction *)
(* sees the write, the committed database only under commit=True, which no *)
(* posting operation passes.                                               *)
_execute_sql(d, w, s) ==
    LET written == Execute(w, s)
    IN  [work |-> written, db |-> IF s.commit THEN written ELSE d]

(* A call that raises before BEGIN, and a call that opens a transaction *)
Unstarted(rc) == [begin |-> FALSE, rc |-> rc, stmts |-> <<>>]

Transaction(stmts) == [begin |-> TRUE, rc |-> "commit", stmts |-> stmts]

(* _generate_gl_entries: one INSERT per line, then the balance check *)
PostingStatements(entries, reference, dates) ==
    LET g == _generate_gl_entries(<<>>, entries, reference, dates)
    IN  [i \in 1 .. Len(g.gl) |-> Insert("gl", g.gl[i])]
            \o (IF g.ok THEN <<>> ELSE <<Raise("rollback")>>)

StatementsOfCashReceipt(d, a, now) ==
    IF a.amount <= 0 THEN Unstarted("ValueError")
    ELSE Transaction(
            << Insert("ct", [BankAccountID |-> a.bank, TransactionType |-> "Deposit", Amount |-> a.amount]),
               UpdateBank(a.bank, a.amount) >>
            \o PostingStatements(<< <<a.cash, a.amount, 0>>, <<a.contra, 0, a.amount>> >>,
                                 Ref("CashTransID", Len(d.ct) + 1, 0), Dates(now, FALSE, 2)))

StatementsOfPostInTransaction(d, a, now) ==
    Transaction(
        << Insert("ct", [BankAccountID |-> a.bank, TransactionType |-> "Deposit", Amount |-> a.amount]),
           UpdateBank(a.bank, a.amount) >>
        \o PostingStatements(a.entries, Ref("CashTransID", Len(d.ct) + 1, 0),
                             Dates(now, FALSE, Len(a.entries))))

StatementsOfCashDisbursement(d, a, now) ==
    IF a.amount <= 0 THEN Unstarted("ValueError")
    ELSE Transaction(
            << Insert("ct", [BankAccountID |-> a.bank, TransactionType |-> "Withdrawal", Amount |-> a.amount]),
               UpdateBank(a.bank, 0 - a.amount) >>
            \o PostingStatements(<< <<a.contra, a.amount, 0>>, <<a.cash, 0, a.amount>> >>,
                                 Ref("CashTransID", Len(d.ct) + 1, 0), Dates(now, FALSE, 2)))

(* Variant: equal debit and credit accounts are let through *)
StatementsOfManualJournal_same_account(d, a, now) ==
    IF a.amount <= 0 THEN Unstarted("ValueError")
    ELSE Transaction(
            PostingStatements(<< <<a.debit, a.amount, 0>>, <<a.credit, 0, a.amount>> >>,
                              Ref("Manual Journal Entry", now, 0), Dates(now, FALSE, 2)))

StatementsOfManualJournal(d, a, now) ==
    IF a.amount <= 0 THEN Unstarted("ValueError")
    ELSE IF a.debit = a.credit THEN Unstarted("ValueError")
    ELSE Transaction(
            PostingStatements(<< <<a.debit, a.amount, 0>>, <<a.credit, 0, a.amount>> >>,
                              Ref("Manual Journal Entry", now, 0), Dates(now, FALSE, 2)))

StatementsOfBankTransfer(d, a, now) ==
    IF a.amount <= 0 THEN Unstarted("ValueError")
    ELSE IF a.bank = a.target_bank THEN Unstarted("ValueError")
    ELSE IF a.cash = a.contra THEN Unstarted("ValueError")
    ELSE Transaction(
            << Insert("ct", [BankAccountID |-> a.bank, TransactionType |-> "Transfer", Amount |-> a.amount]),
               UpdateBank(a.bank, 0 - a.amount),
               Insert("ct", [BankAccountID |-> a.target_bank, TransactionType |-> "Transfer", Amount |-> a.amount]),
               UpdateBank(a.target_bank, a.amount) >>
            \o PostingStatements(<< <<a.contra, a.amount, 0>>, <<a.cash, 0, a.amount>> >>,
                                 Ref("Transfer IDs", Len(d.ct) + 1, Len(d.ct) + 2), Dates(now, FALSE, 2)))

StatementsOfCustomerPayment(d, a, now) ==
    IF a.amount <= 0 THEN Unstarted("ValueError")
    ELSE Transaction(
            << Insert("cpay", [CustomerID |-> a.party, Amount |-> a.amount, BankAccountID |-> a.bank]),
               UpdateBank(a.bank, a.amount) >>
            \o PostingStatements(<< <<a.cash, a.amount, 0>>, <<a.contra, 0, a.amount>> >>,
                                 Ref("CustPmtID", Len(d.cpay) + 1, 0), Dates(now, FALSE, 2)))

StatementsOfVendorPayment(d, a, now) ==
    IF a.amount <= 0 THEN Unstarted("ValueError")
    ELSE Transaction(
            << Insert("vpay", [VendorID |-> a.party, Amount |-> a.amount, BankAccountID |-> a.bank]),
               UpdateBank(a.bank, 0 - a.amount) >>
            \o PostingStatements(<< <<a.contra, a.amount, 0>>, <<a.cash, 0, a.amount>> >>,
                                 Ref("VendPmtID", Len(d.vpay) + 1, 0), Dates(now, FALSE, 2)))

StatementsOfAssetPurchase(d, a, now) ==
    IF a.amount <= 0 THEN Unstarted("ValueError")
    ELSE Transaction(
            PostingStatements(<< <<a.debit, a.amount, 0>>, <<a.credit, 0, a.amount>> >>,
                              Ref("Asset", a.name, 0), Dates(now, FALSE, 2)))


(* Variant: InvoiceNumber is not held unique *)
StatementsOfCreateInvoice_no_unique(d, a, now) ==
    LET quantity == a.item[1]
        unit_price == a.item[2]
        tax_rate == a.item[3]
    IN  IF quantity <= 0 \/ unit_price < 0 \/ tax_rate < 0 THEN Unstarted("ValueError")
        ELSE
        LET total_amount == DocumentTotal(quantity, unit_price, tax_rate)
            number == IF a.number = NoNumber THEN GenerateInvoiceNumber(d.inv) ELSE a.number
            invoice_id == Len(d.inv) + 1
        IN  IF FALSE
            THEN Transaction(<<Raise("IntegrityError")>>)
            ELSE Transaction(
                    << Insert("inv", [InvoiceNumber |-> number, CustomerID |-> a.party,
                                      DueDate |-> now, TotalAmount |-> total_amount,
                                      PaidAmount |-> 0, Balance |-> total_amount, Status |-> "Issued"]),
                       Insert("invItems", [InvoiceID |-> invoice_id, Quantity |-> quantity,
                                      UnitPrice |-> unit_price, TaxRate |-> tax_rate,
                                      TaxAmount |-> TaxAmount(quantity, unit_price, tax_rate),
                                      LineTotal |-> total_amount, AccountID |-> a.credit]) >>
                    \o PostingStatements(<< <<a.debit, total_amount, 0>>, <<a.credit, 0, total_amount>> >>,
                                         Ref("InvoiceID", invoice_id, 0), Dates(now, FALSE, 2)))

(* The number is chosen before BEGIN; a number already in use makes the    *)
(* header INSERT raise sqlite3.IntegrityError.                             *)
StatementsOfCreateInvoice(d, a, now) ==
    LET quantity == a.item[1]
        unit_price == a.item[2]
        tax_rate == a.item[3]
    IN  IF quantity <= 0 \/ unit_price < 0 \/ tax_rate < 0 THEN Unstarted("ValueError")
        ELSE
        LET total_amount == DocumentTotal(quantity, unit_price, tax_rate)
            number == IF a.number = NoNumber THEN GenerateInvoiceNumber(d.inv) ELSE a.number
            invoice_id == Len(d.inv) + 1
        IN  IF \E i \in 1 .. Len(d.inv) : d.inv[i].InvoiceNumber = number
            THEN Transaction(<<Raise("IntegrityError")>>)
            ELSE Transaction(
                    << Insert("inv", [InvoiceNumber |-> number, CustomerID |-> a.party,
                                      DueDate |-> now, TotalAmount |-> total_amount,
                                      PaidAmount |-> 0, Balance |-> total_amount, Status |-> "Issued"]),
                       Insert("invItems", [InvoiceID |-> invoice_id, Quantity |-> quantity,
                                      UnitPrice |-> unit_price, TaxRate |-> tax_rate,
                                      TaxAmount |-> TaxAmount(quantity, unit_price, tax_rate),
                                      LineTotal |-> total_amount, AccountID |-> a.credit]) >>
                    \o PostingStatements(<< <<a.debit, total_amount, 0>>, <<a.credit, 0, total_amount>> >>,
                                         Ref("InvoiceID", invoice_id, 0), Dates(now, FALSE, 2)))

StatementsOfEnterBill(d, a, now) ==
    LET quantity == a.item[1]
        unit_price == a.item[2]
        tax_rate == a.item[3]
    IN  IF quantity <= 0 \/ unit_price < 0 \/ tax_rate < 0 THEN Unstarted("ValueError")
        ELSE
        LET total_amount == DocumentTotal(quantity, unit_price, tax_rate)
            bill_id == Len(d.bills) + 1
        IN  IF \E i \in 1 .. Len(d.bills) : d.bills[i].BillNumber = a.number
            THEN Transaction(<<Raise("IntegrityError")>>)
            ELSE Transaction(
                    << Insert("bills", [BillNumber |-> a.number, VendorID |-> a.party,
                                      DueDate |-> now, TotalAmount |-> total_amount,
                                      PaidAmount |-> 0, Status |-> "Received"]),
                       Insert("billItems", [BillID |-> bill_id, Quantity |-> quantity,
                                      UnitPrice |-> unit_price, TaxRate |-> tax_rate,
                                      AccountID |-> a.debit]) >>
                    \o PostingStatements(<< <<a.debit, total_amount, 0>>, <<a.credit, 0, total_amount>> >>,
                                         Ref("BillID", bill_id, 0), Dates(now, FALSE, 2)))

(* The reads and checks come first; each failed check rolls back and       *)
(* returns False before the UPDATE.                                        *)
StatementsOfApplyToInvoice(d, a, now) ==
    IF a.payment_id \notin 1 .. Len(d.cpay) THEN Transaction(<<Raise("payment not found")>>)
    ELSE IF a.id \notin 1 .. Len(d.inv) THEN Transaction(<<Raise("document not found")>>)
    ELSE IF d.inv[a.id].Status = "Paid" \/ d.inv[a.id].Balance <= 0
    THEN Transaction(<<Raise("already paid or zero balance")>>)
    ELSE IF d.cpay[a.payment_id].Amount < d.inv[a.id].Balance
    THEN Transaction(<<Raise("payment insufficient")>>)
    ELSE Transaction(<<UpdateDoc("inv", a.id,
            [d.inv[a.id] EXCEPT !.PaidAmount = d.inv[a.id].TotalAmount, !.Balance = 0, !.Status = "Paid"])>>)

StatementsOfApplyToBill(d, a, now) ==
    IF a.payment_id \notin 1 .. Len(d.vpay) THEN Transaction(<<Raise("payment not found")>>)
    ELSE IF a.id \notin 1 .. Len(d.bills) THEN Transaction(<<Raise("document not found")>>)
    ELSE IF d.bills[a.id].Status = "Paid" \/ BillBalance(d.bills[a.id]) <= 0
    THEN Transaction(<<Raise("already paid or zero balance")>>)
    ELSE IF d.vpay[a.payment_id].Amount < BillBalance(d.bills[a.id])
    THEN Transaction(<<Raise("payment insufficient")>>)
    ELSE Transaction(<<UpdateDoc("bills", a.id,
            [d.bills[a.id] EXCEPT !.PaidAmount = d.bills[a.id].TotalAmount, !.Status = "Paid"])>>)

(* a.credit is the receivable account, a.debit the revenue account *)
StatementsOfVoidInvoice(d, a, now) ==
    IF a.id \notin 1 .. Len(d.inv) THEN Transaction(<<Raise("document not found")>>)
    ELSE IF d.inv[a.id].PaidAmount > 0 THEN Transaction(<<Raise("payments recorded")>>)
    ELSE IF d.inv[a.id].Status = "Paid" \/ d.inv[a.id].Status = "Cancelled"
    THEN Transaction(<<Raise("cannot void status")>>)
    ELSE
    LET total_amount == d.inv[a.id].TotalAmount
    IN  Transaction(
            <<UpdateDoc("inv", a.id, [d.inv[a.id] EXCEPT !.Status = "Cancelled", !.Balance = 0])>>
            \o (IF total_amount > 0
                THEN PostingStatements(<< <<a.credit, 0, total_amount>>, <<a.debit, total_amount, 0>> >>,
                                       Ref("VoidInvoiceID", a.id, 0), Dates(now, FALSE, 2))
                ELSE <<>>))

(* a.debit is the payable account, a.credit the expense account *)
StatementsOfVoidBill(d, a, now) ==
    IF a.id \notin 1 .. Len(d.bills) THEN Transaction(<<Raise("document not found")>>)
    ELSE IF d.bills[a.id].PaidAmount > 0 THEN Transaction(<<Raise("payments recorded")>>)
    ELSE IF d.bills[a.id].Status = "Paid" \/ d.bills[a.id].Status = "Cancelled"
    THEN Transaction(<<Raise("cannot void status")>>)
    ELSE
    LET total_amount == d.bills[a.id].TotalAmount
    IN  Transaction(
            <<UpdateDoc("bills", a.id, [d.bills[a.id] EXCEPT !.Status = "Cancelled"])>>
            \o (IF total_amount > 0
                THEN PostingStatements(<< <<a.debit, total_amount, 0>>, <<a.credit, 0, total_amount>> >>,
                                       Ref("VoidBillID", a.id, 0), Dates(now, FALSE, 2))
                ELSE <<>>))

(* The statements of a call, and the handler it is a call of *)
Program(op, a, d, now) ==
    CASE op = "record_simple_cash_receipt"       -> StatementsOfCashReceipt(d, a, now)
      [] op = "post_in_transaction"              -> StatementsOfPostInTransaction(d, a, now)
      [] op = "record_simple_cash_disbursement"  -> StatementsOfCashDisbursement(d, a, now)
      [] op = "post_simple_manual_journal_entry" -> StatementsOfManualJournal(d, a, now)
      [] op = "record_bank_transfer"             -> StatementsOfBankTransfer(d, a, now)
      [] op = "create_simple_sales_invoice"      -> StatementsOfCreateInvoice(d, a, now)
      [] op = "record_simple_customer_payment"   -> StatementsOfCustomerPayment(d, a, now)
      [] op = "apply_full_payment_to_invoice"    -> StatementsOfApplyToInvoice(d, a, now)
      [] op = "void_invoice"                     -> StatementsOfVoidInvoice(d, a, now)
      [] op = "enter_simple_vendor_bill"         -> StatementsOfEnterBill(d, a, now)
      [] op = "record_simple_vendor_payment"     -> StatementsOfVendorPayment(d, a, now)
      [] op = "apply_full_payment_to_bill"       -> StatementsOfApplyToBill(d, a, now)
      [] op = "void_bill"                        -> StatementsOfVoidBill(d, a, now)
      [] op = "record_fixed_asset_purchase"      -> StatementsOfAssetPurchase(d, a, now)

Handler(op, a, d, now) ==
    CASE op = "record_simple_cash_receipt" ->
            record_simple_cash_receipt(d, a.amount, a.bank, a.cash, a.contra, now, FALSE)
      [] op = "post_in_transaction" ->
            post_in_transaction(d, a.amount, a.bank, a.entries, now, FALSE)
      [] op = "record_simple_cash_disbursement" ->
            record_simple_cash_disbursement(d, a.amount, a.bank, a.cash, a.contra, now, FALSE)
      [] op = "post_simple_manual_journal_entry" ->
            post_simple_manual_journal_entry(d, now, a.debit, a.credit, a.amount, 0, now, FALSE)
      [] op = "record_bank_transfer" ->
            record_bank_transfer(d, a.amount, a.bank, a.cash, a.target_bank, a.contra, now, FALSE)
      [] op = "create_simple_sales_invoice" ->
            create_simple_sales_invoice(d, a.party, now, a.item[1], a.item[2], a.credit, a.debit, a.number, a.item[3], now, FALSE)
      [] op = "record_simple_customer_payment" ->
            record_simple_customer_payment(d, a.party, a.amount, a.bank, a.cash, a.contra, now, FALSE)
      [] op = "apply_full_payment_to_invoice" ->
            apply_full_payment_to_invoice(d, a.payment_id, a.id, now)
      [] op = "void_invoice" ->
            void_invoice(d, a.id, a.credit, a.debit, now, FALSE)
      [] op = "enter_simple_vendor_bill" ->
            enter_simple_vendor_bill(d, a.party, a.number, now, a.item[1], a.item[2], a.debit, a.credit, a.item[3], now, FALSE)
      [] op = "record_simple_vendor_payment" ->
            record_simple_vendor_payment(d, a.party, a.amount, a.bank, a.cash, a.contra, now, FALSE)
      [] op = "apply_full_payment_to_bill" ->
            apply_full_payment_to_bill(d, a.payment_id, a.id, now)
      [] op = "void_bill" ->
            void_bill(d, a.id, a.debit, a.credit, now, FALSE)
      [] op = "record_fixed_asset_purchase" ->
            record_fixed_asset_purchase(d, a.name, a.amount, a.debit, a.credit, now, FALSE)


-----------------------------------------------------------------------------
(* State machine of one connection, statement by statement.  tx.work is     *)
(* what the connection itself reads inside its transaction; db is what is   *)
(* committed.                                                               *)

Call(op, args) == [op |-> op, args |-> args]

UnbalancedLines == << <<1, 1, 0>>, <<4, 0, MaxAmount>> >>

CashCalls ==
    {Call(op, [amount |-> amount, bank |-> 1, cash |-> 1, contra |-> 4, party |-> 1]) :
        op \in {"record_simple_cash_receipt", "record_simple_cash_disbursement"}, amount \in {0, 1}}
    \cup {Call("post_in_transaction", [amount |-> 1, bank |-> 1, entries |-> entries]) :
        entries \in {UnbalancedLines, << <<1, 1, 0>>, <<4, 0, 1>> >>}}
    \cup {Call("record_bank_transfer",
               [amount |-> amount, bank |-> 1, cash |-> 1, target_bank |-> target, contra |-> contra]) :
        amount \in {0, 1}, target \in BankAccountIDs, contra \in {1, 2}}
    \cup {Call(op, [amount |-> amount, debit |-> pair[1], credit |-> pair[2], name |-> 1]) :
        op \in {"post_simple_manual_journal_entry", "record_fixed_asset_purchase"},
        amount \in {0, 1}, pair \in {<<6, 1>>, <<1, 1>>}}

BadLineItems == {<<0, 1, 0>>, <<1, 0 - 1, 0>>, <<1, 1, 0 - 1>>}

DocumentCalls(d) ==
    {Call("create_simple_sales_invoice",
          [party |-> 1, item |-> item, number |-> number, debit |-> 3, credit |-> 4]) :
        item \in {<<1, MaxAmount, 0>>, <<1, 0, 0>>} \cup BadLineItems,
        number \in {NoNumber, InvNum("INV-", 1, 4)}}
    \cup {Call("enter_simple_vendor_bill",
          [party |-> 1, item |-> item, number |-> 1, debit |-> 6, credit |-> 5]) :
        item \in {<<1, MaxAmount, 0>>, <<1, 0, 0>>} \cup BadLineItems}
    \cup {Call("record_simple_customer_payment",
          [amount |-> amount, bank |-> 1, cash |-> 1, contra |-> 3, party |-> 1]) : amount \in {0, 1, MaxAmount}}
    \cup {Call("record_simple_vendor_payment",
          [amount |-> amount, bank |-> 1, cash |-> 1, contra |-> 5, party |-> 1]) : amount \in {0, 1, MaxAmount}}
    \cup {Call("apply_full_payment_to_invoice", [payment_id |-> payment_id, id |-> id]) :
        payment_id \in 1 .. (Len(d.cpay) + 1), id \in 1 .. (Len(d.inv) + 1)}
    \cup {Call("apply_full_payment_to_bill", [payment_id |-> payment_id, id |-> id]) :
        payment_id \in 1 .. (Len(d.vpay) + 1), id \in 1 .. (Len(d.bills) + 1)}
    \cup {Call("void_invoice", [id |-> id, debit |-> 4, credit |-> 3]) : id \in 1 .. (Len(d.inv) + 1)}
    \cup {Call("void_bill", [id |-> id, debit |-> 5, credit |-> 6]) : id \in 1 .. (Len(d.bills) + 1)}

(* The call raises ValueError in its validation, before BEGIN *)
Refuse(calls) ==
    \E c \in calls :
        LET p == Program(c.op, c.args, db, today)
        IN  /\ ~tx.open
            /\ ~p.begin
            /\ last' = [op |-> c.op, args |-> c.args, ok |-> FALSE, rc |-> p.rc]
            /\ UNCHANGED <<db, today, tx>>

(* conn.execute("BEGIN") *)
Begin(calls) ==
    \E c \in calls :
        LET p == Program(c.op, c.args, db, today)
        IN  /\ ~tx.open
            /\ p.begin
            /\ tx' = [open |-> TRUE, op |-> c.op, args |-> c.args, stmts |-> p.stmts, pc |-> 1, work |-> db]
            /\ UNCHANGED <<db, today, last>>

(* The next INSERT or UPDATE of the open transaction *)
Statement ==
    /\ tx.open
    /\ tx.pc <= Len(tx.stmts)
    /\ tx.stmts[tx.pc].kind # "raise"
    /\ LET r == _execute_sql(db, tx.work, tx.stmts[tx.pc])
       IN  /\ tx' = [tx EXCEPT !.work = r.work, !.pc = @ + 1]
           /\ db' = r.db
    /\ UNCHANGED <<today, last>>

(* Variant: the failed check returns without conn.rollback(); the          *)
(* transaction stays open behind the handler, past its last statement      *)
Rollback_left_open ==
    /\ tx.open
    /\ tx.pc <= Len(tx.stmts)
    /\ tx.stmts[tx.pc].kind = "raise"
    /\ tx' = [tx EXCEPT !.pc = Len(tx.stmts) + 2]
    /\ last' = [op |-> tx.op, args |-> tx.args, ok |-> FALSE, rc |-> tx.stmts[tx.pc].val]
    /\ UNCHANGED <<db, today>>

(* A failed check or a raised ValueError: conn.rollback() *)
Rollback ==
    /\ tx.open
    /\ tx.pc <= Len(tx.stmts)
    /\ tx.stmts[tx.pc].kind = "raise"
    /\ tx' = NoTx
    /\ last' = [op |-> tx.op, args |-> tx.args, ok |-> FALSE, rc |-> tx.stmts[tx.pc].val]
    /\ UNCHANGED <<db, today>>

(* The statement raises sqlite3.Error: the except branch rolls back *)
Fault ==
    /\ tx.open
    /\ tx.pc <= Len(tx.stmts)
    /\ tx.stmts[tx.pc].kind # "raise"
    /\ tx' = NoTx
    /\ last' = [op |-> tx.op, args |-> tx.args, ok |-> FALSE, rc |-> "sqlite3.Error"]
    /\ UNCHANGED <<db, today>>

(* conn.commit() after the last statement *)
Commit ==
    /\ tx.open
    /\ tx.pc = Len(tx.stmts) + 1
    /\ db' = tx.work
    /\ tx' = NoTx
    /\ last' = [op |-> tx.op, args |-> tx.args, ok |-> TRUE, rc |-> "commit"]
    /\ UNCHANGED today

(* The process dies with the transaction open: SQLite discards it *)
Crash ==
    /\ tx.open
    /\ tx' = NoTx
    /\ last' = [op |-> tx.op, args |-> tx.args, ok |-> FALSE, rc |-> "crash"]
    /\ UNCHANGED <<db, today>>

NextSteps ==
    /\ last.ok
    /\ \/ Refuse(CashCalls \cup DocumentCalls(db))
       \/ Begin(CashCalls \cup DocumentCalls(db))
       \/ Statement
       \/ Rollback
       \/ Fault
       \/ Commit
       \/ Crash
    /\ Within(MaxPostings)

SpecSteps == Init /\ [][NextSteps]_vars

(* Statement by statement, a call ends as the handler taken whole ends *)
RunsAsHandler ==
    /\ \A c \in CashCalls \cup DocumentCalls(db) :
          ~tx.open /\ ~Program(c.op, c.args, db, today).begin =>
              /\ ~Handler(c.op, c.args, db, today).ok
              /\ Handler(c.op, c.args, db, today).rc = "ValueError"
    /\ tx.open /\ tx.pc = Len(tx.stmts) + 1 =>
          /\ Handler(tx.op, tx.args, db, today).ok
          /\ Handler(tx.op, tx.args, db, today).db = tx.work
    /\ tx.open /\ tx.pc <= Len(tx.stmts) /\ tx.stmts[tx.pc].kind = "raise" =>
          /\ ~Handler(tx.op, tx.args, db, today).ok
          /\ Handler(tx.op, tx.args, db, today).rc = tx.stmts[tx.pc].val


-----------------------------------------------------------------------------
(* Properties of the operations taken statement by statement *)

Creations == {"create_simple_sales_invoice", "enter_simple_vendor_bill"}

(* The step on which the open transaction is committed *)
CommitStep == tx.open /\ ~tx'.open /\ last'.ok

(* C16: a creation that fails, because its number is already in use or     *)
(* because a statement or the posting fails, leaves no partial state: from *)
(* its first statement to the failure no header, no line item and no       *)
(* ledger line is committed and the existing documents stay as they were;  *)
(* a creation commits on its commit step only.                             *)
C16_CreateStep ==
    /\ tx.open /\ tx.op \in Creations /\ ~CommitStep => db' = db
    /\ ~tx.open /\ ~last'.ok /\ last'.op \in Creations => db' = db

C16_FailedCreationLeavesNothing == [][C16_CreateStep]_vars

(* A second invoice under a number in use has been refused *)
C16_Witness ==
    /\ last.op = "create_simple_sales_invoice"
    /\ last.rc = "IntegrityError"
    /\ Len(db.inv) = 1
    /\ Len(db.invItems) = 1
    /\ Len(db.gl) = 2


(* The arguments that validation is to turn away *)
Invalid(op, a) ==
    \/ /\ op \in {"record_simple_cash_receipt", "record_simple_cash_disbursement",
                  "post_simple_manual_journal_entry", "record_bank_transfer",
                  "record_simple_customer_payment", "record_simple_vendor_payment"}
       /\ a.amount <= 0
    \/ op = "post_simple_manual_journal_entry" /\ a.debit = a.credit
    \/ op = "record_bank_transfer" /\ (a.bank = a.target_bank \/ a.cash = a.contra)
    \/ op \in Creations /\ (a.item[1] <= 0 \/ a.item[2] < 0 \/ a.item[3] < 0)

(* C17: a call with an amount <= 0 (receipt, disbursement, journal,        *)
(* transfer, customer or vendor payment), with equal debit and credit      *)
(* accounts (journal), with equal source and target bank or cash accounts  *)
(* (transfer), or with quantity <= 0, unit price < 0 or tax rate < 0       *)
(* (creation) is refused with ValueError: no transaction is started for it *)
(* and no table changes.                                                   *)
C17_CallStep ==
    /\ ~tx.open /\ tx'.open => ~Invalid(tx'.op, tx'.args)
    /\ ~tx.open /\ ~last'.ok /\ Invalid(last'.op, last'.args) =>
          /\ last'.rc = "ValueError"
          /\ ~tx'.open
          /\ db' = db

C17_InvalidCallRefusedBeforeBegin == [][C17_CallStep]_vars

(* A transfer between two banks kept on the same cash account has been     *)
(* refused with entries already in the books                               *)
C17_Witness ==
    /\ last.op = "record_bank_transfer"
    /\ ~last.ok
    /\ last.args.amount > 0
    /\ last.args.bank # last.args.target_bank
    /\ last.args.cash = last.args.contra
    /\ ~tx.open
    /\ Len(db.gl) > 0


(* What a reader of the committed database d can tell apart: a cash or     *)
(* payment row has its ledger batch, a document header has its line item   *)
(* and its creation batch, a cancelled document with a total has its       *)
(* reversing batch.                                                        *)
ReaderSeesWholeOperations(d) ==
    /\ \A i \in 1 .. Len(d.ct) :
          \/ RowsWithReference(d.gl, Ref("CashTransID", i, 0)) # <<>>
          \/ RowsWithReference(d.gl, Ref("Transfer IDs", i, i + 1)) # <<>>
          \/ RowsWithReference(d.gl, Ref("Transfer IDs", i - 1, i)) # <<>>
    /\ \A i \in 1 .. Len(d.cpay) : RowsWithReference(d.gl, Ref("CustPmtID", i, 0)) # <<>>
    /\ \A i \in 1 .. Len(d.vpay) : RowsWithReference(d.gl, Ref("VendPmtID", i, 0)) # <<>>
    /\ \A i \in 1 .. Len(d.inv) :
          /\ \E k \in 1 .. Len(d.invItems) : d.invItems[k].InvoiceID = i
          /\ Len(RowsWithReference(d.gl, Ref("InvoiceID", i, 0))) = 2
          /\ d.inv[i].Status = "Cancelled" /\ d.inv[i].TotalAmount > 0 =>
                Len(RowsWithReference(d.gl, Ref("VoidInvoiceID", i, 0))) = 2
    /\ \A i \in 1 .. Len(d.bills) :
          /\ \E k \in 1 .. Len(d.billItems) : d.billItems[k].BillID = i
          /\ Len(RowsWithReference(d.gl, Ref("BillID", i, 0))) = 2
          /\ d.bills[i].Status = "Cancelled" /\ d.bills[i].TotalAmount > 0 =>
                Len(RowsWithReference(d.gl, Ref("VoidBillID", i, 0))) = 2

(* C18: every mutating operation is all-or-nothing.  While its transaction *)
(* is open the committed database does not move, whether the next          *)
(* statement runs, raises, or the process dies; the commit step installs   *)
(* the operation's writes all together; so the database after a failure or *)
(* a crash is the one before the call, and a reader never sees a cash or   *)
(* payment row without its ledger lines, a header without its line item    *)
(* and creation batch, or a Cancelled status without its reversing batch.  *)
C18_TransactionStep ==
    /\ tx.open /\ ~CommitStep => db' = db
    /\ ~tx.open /\ ~last'.ok => db' = db
    /\ CommitStep =>
          /\ tx.pc = Len(tx.stmts) + 1
          /\ Handler(tx.op, tx.args, db, today).ok
          /\ db' = Handler(tx.op, tx.args, db, today).db
    /\ ReaderSeesWholeOperations(db')

C18_AllOrNothing == [][C18_TransactionStep]_vars

(* A void has set Cancelled inside its transaction and has not yet posted  *)
(* the reversing batch; the committed invoice is still Issued              *)
C18_Witness ==
    /\ tx.open
    /\ tx.op = "void_invoice"
    /\ tx.pc = 2
    /\ tx.work.inv[tx.args.id].Status = "Cancelled"
    /\ db.inv[tx.args.id].Status = "Issued"
    /\ Len(tx.stmts) = 3


(* The rejections that guard an invariant: the balance check of the        *)
(* posting engine, the sufficiency check of apply, the checks of void      *)
InvariantRejections ==
    {"rollback", "payment insufficient", "payments recorded", "cannot void status"}

(* C19: when a check rejects an invariant violation (an unbalanced batch,  *)
(* an insufficient payment, the void of a settled document), nothing has   *)
(* been written before it, even inside the still open transaction: no      *)
(* ledger row, no status or balance change.                                *)
C19_CheckPrecedesWrites ==
    /\ tx.open
    /\ tx.pc <= Len(tx.stmts)
    /\ tx.stmts[tx.pc].kind = "raise"
    /\ tx.stmts[tx.pc].val \in InvariantRejections
    => /\ tx.work.gl = db.gl
       /\ tx.work.inv = db.inv
       /\ tx.work.bills = db.bills


-----------------------------------------------------------------------------
(* Recording a payment *)

(* One new payment row for the amount, one balanced batch of two rows *)
RecordsPayment(payments, payments_after, rows, debit, credit, amount) ==
    /\ Len(payments_after) = Len(payments) + 1
    /\ SubSeq(payments_after, 1, Len(payments)) = payments
    /\ payments_after[Len(payments_after)].Amount = amount
    /\ Len(rows) = 2
    /\ rows[1].Reference = rows[2].Reference
    /\ rows[1].AccountID = debit /\ rows[1].DebitAmount = amount /\ rows[1].CreditAmount = 0
    /\ rows[2].AccountID = credit /\ rows[2].DebitAmount = 0 /\ rows[2].CreditAmount = amount

(* C20: recording a customer or a vendor payment adds one payment row and  *)
(* posts one balanced batch for the full amount (customer: debit cash,     *)
(* credit receivables; vendor: debit payables, credit cash) and changes no *)
(* document: every invoice and bill keeps its Status, PaidAmount and       *)
(* Balance, and the lists of open documents are as before.                 *)
C20_PaymentStep ==
    LET a == last'.args
    IN  /\ (last'.op = "record_simple_customer_payment" /\ last'.ok) =>
               /\ RecordsPayment(db.cpay, db'.cpay, NewRows, a.cash, a.contra, a.amount)
               /\ db'.vpay = db.vpay
        /\ (last'.op = "record_simple_vendor_payment" /\ last'.ok) =>
               /\ RecordsPayment(db.vpay, db'.vpay, NewRows, a.contra, a.cash, a.amount)
               /\ db'.cpay = db.cpay
        /\ (last'.op \in {"record_simple_customer_payment", "record_simple_vendor_payment"}) =>
               /\ db'.inv = db.inv
               /\ db'.bills = db.bills
               /\ list_open_customer_invoices(db', 1) = list_open_customer_invoices(db, 1)
               /\ list_open_vendor_bills(db', 1) = list_open_vendor_bills(db, 1)

C20_PaymentChangesNoDocument == [][C20_PaymentStep]_vars

(* A customer payment that covers the open invoice has been recorded and   *)
(* the invoice is still listed as open                                     *)
C20_Witness ==
    /\ last.op = "record_simple_customer_payment"
    /\ last.ok
    /\ list_open_customer_invoices(db, 1) # <<>>
    /\ last.args.amount >= db.inv[list_open_customer_invoices(db, 1)[1]].Balance


-----------------------------------------------------------------------------
(* Applying a payment, the open lists, document balances *)

Applies == {"apply_full_payment_to_invoice", "apply_full_payment_to_bill"}

(* C21: apply-payment, accepted or rejected, writes no ledger line and     *)
(* leaves every account's derived balance, every cached bank balance and   *)
(* every payment row as they were; a rejected call changes nothing, an     *)
(* accepted one changes only PaidAmount, Balance and Status of the         *)
(* document it was given.                                                  *)
C21_ApplyStep ==
    LET a == last'.args
    IN  /\ last'.op \in Applies =>
               /\ db'.gl = db.gl
               /\ \A account_id \in AccountIDs :
                      view_gl_account_balance(db', account_id) = view_gl_account_balance(db, account_id)
               /\ \A bank_account_id \in BankAccountIDs :
                      view_bank_account_balance(db', bank_account_id)
                          = view_bank_account_balance(db, bank_account_id)
               /\ db'.ct = db.ct
               /\ db'.cpay = db.cpay
               /\ db'.vpay = db.vpay
               /\ db'.invItems = db.invItems
               /\ db'.billItems = db.billItems
        /\ (last'.op \in Applies /\ ~last'.ok) => db' = db
        /\ (last'.op = "apply_full_payment_to_invoice" /\ last'.ok) =>
               db' = [db EXCEPT !.inv[a.id] =
                         [@ EXCEPT !.PaidAmount = db'.inv[a.id].PaidAmount,
                                   !.Balance = db'.inv[a.id].Balance,
                                   !.Status = db'.inv[a.id].Status]]
        /\ (last'.op = "apply_full_payment_to_bill" /\ last'.ok) =>
               db' = [db EXCEPT !.bills[a.id] =
                         [@ EXCEPT !.PaidAmount = db'.bills[a.id].PaidAmount,
                                   !.Status = db'.bills[a.id].Status]]

C21_ApplyIsNoLedgerEvent == [][C21_ApplyStep]_vars

(* A vendor payment has been applied to a bill with ledger lines and a     *)
(* bank balance in place                                                   *)
C21_Witness ==
    /\ last.op = "apply_full_payment_to_bill"
    /\ last.ok
    /\ db.bills[last.args.id].Status = "Paid"
    /\ Len(db.gl) >= 4
    /\ \E bank_account_id \in BankAccountIDs : db.bank[bank_account_id] < 0


(* Creation with the due date chosen by the caller *)
CreateInvoiceDue(customers, items, due_dates) ==
    \E customer \in customers, item \in items, due_date \in due_dates :
        Do("create_simple_sales_invoice",
           [party |-> customer, item |-> item, number |-> NoNumber, debit |-> 3, credit |-> 4, due |-> due_date],
           create_simple_sales_invoice(db, customer, due_date, item[1], item[2], 4, 3, NoNumber, item[3], today, FALSE))

EnterBillDue(vendors, items, due_dates) ==
    \E vendor \in vendors, item \in items, due_date \in due_dates :
        Do("enter_simple_vendor_bill",
           [party |-> vendor, item |-> item, number |-> Len(db.bills) + 1, debit |-> 6, credit |-> 5, due |-> due_date],
           enter_simple_vendor_bill(db, vendor, Len(db.bills) + 1, due_date, item[1], item[2], 6, 5, item[3], today, FALSE))

Parties == {1, 2}

NextLists ==
    /\ last.ok
    /\ \/ CreateInvoiceDue(Parties, {<<1, 1, 0>>, <<1, 0, 0>>}, {1, MaxDay})
       \/ CustomerPayment({1}, {1}, {1}, {1}, {3}, {FALSE})
       \/ ApplyToInvoice
       \/ VoidInvoice({3}, {4}, {FALSE})
       \/ EnterBillDue(Parties, {<<1, 1, 0>>, <<1, 0, 0>>}, {1, MaxDay})
       \/ VendorPayment({1}, {1}, {2}, {2}, {5}, {FALSE})
       \/ ApplyToBill
       \/ VoidBill({5}, {6}, {FALSE})
    /\ Within(MaxPostings)

SpecLists == Init /\ [][NextLists]_vars

(* The list holds each of the ids once, by ascending due date *)
ListsExactly(list, ids, docs) ==
    /\ {list[k] : k \in 1 .. Len(list)} = ids
    /\ Len(list) = Cardinality(ids)
    /\ \A k \in 1 .. Len(list) : \A m \in k .. Len(list) : docs[list[k]].DueDate <= docs[list[m]].DueDate

Closed == {"Paid", "Cancelled", "Draft"}

(* C22: list-open for a party returns exactly the party's documents whose  *)
(* Status is not Paid, Cancelled or Draft and whose Balance is > 0, by     *)
(* ascending due date; a Paid or Cancelled document is never listed, and a *)
(* document just created with a total > 0 is listed.                       *)
C22_ListStep ==
    LET a == last'.args
        d == db'
    IN  /\ \A party \in Parties :
               /\ ListsExactly(list_open_customer_invoices(d, party),
                               {i \in 1 .. Len(d.inv) : /\ d.inv[i].CustomerID = party
                                                        /\ d.inv[i].Status \notin Closed
                                                        /\ d.inv[i].Balance > 0},
                               d.inv)
               /\ ListsExactly(list_open_vendor_bills(d, party),
                               {i \in 1 .. Len(d.bills) : /\ d.bills[i].VendorID = party
                                                          /\ d.bills[i].Status \notin Closed
                                                          /\ BillBalance(d.bills[i]) > 0},
                               d.bills)
               /\ \A i \in 1 .. Len(d.inv) :
                      d.inv[i].Status \in {"Paid", "Cancelled"} => ~InSeq(i, list_open_customer_invoices(d, party))
               /\ \A i \in 1 .. Len(d.bills) :
                      d.bills[i].Status \in {"Paid", "Cancelled"} => ~InSeq(i, list_open_vendor_bills(d, party))
        /\ (last'.op = "create_simple_sales_invoice" /\ last'.ok /\ d.inv[Len(d.inv)].TotalAmount > 0) =>
               InSeq(Len(d.inv), list_open_customer_invoices(d, a.party))
        /\ (last'.op = "enter_simple_vendor_bill" /\ last'.ok /\ d.bills[Len(d.bills)].TotalAmount > 0) =>
               InSeq(Len(d.bills), list_open_vendor_bills(d, a.party))

C22_ListOpenIsExact == [][C22_ListStep]_vars

(* A bill due earlier than the open bill entered before it has just been   *)
(* entered for the same vendor: it is listed first                         *)
C22_Witness ==
    /\ last.op = "enter_simple_vendor_bill"
    /\ last.ok
    /\ list_open_vendor_bills(db, 1) = <<2, 1>>
    /\ db.bills[2].DueDate < db.bills[1].DueDate


(* C23: in every reachable state every invoice and every bill has          *)
(* Balance = TotalAmount - PaidAmount and Balance >= 0.                    *)
C23_BalanceIsTotalLessPaid ==
    /\ \A i \in 1 .. Len(db.inv) :
          /\ db.inv[i].Balance = db.inv[i].TotalAmount - db.inv[i].PaidAmount
          /\ db.inv[i].Balance >= 0
    /\ \A i \in 1 .. Len(db.bills) :
          /\ BillBalance(db.bills[i]) = db.bills[i].TotalAmount - db.bills[i].PaidAmount
          /\ BillBalance(db.bills[i]) >= 0


(* C24: the ledger is append-only.  No operation updates or deletes a      *)
(* committed GeneralLedger row: after every call the rows committed before *)
(* it are still there, unchanged and in place, and a void corrects the     *)
(* ledger by new rows only.                                                *)
C24_LedgerStep ==
    /\ Len(db'.gl) >= Len(db.gl)
    /\ SubSeq(db'.gl, 1, Len(db.gl)) = db.gl
    /\ (last'.op = "void_invoice" /\ last'.ok /\ db.inv[last'.args.id].TotalAmount > 0) =>
           Len(db'.gl) = Len(db.gl) + 2
    /\ (last'.op = "void_bill" /\ last'.ok /\ db.bills[last'.args.id].TotalAmount > 0) =>
           Len(db'.gl) = Len(db.gl) + 2

C24_LedgerAppendOnly == [][C24_LedgerStep]_vars

(* An invoice has been voided: its creation batch is still in the ledger,  *)
(* followed by the reversing batch                                         *)
C24_Witness ==
    /\ last.op = "void_invoice"
    /\ last.ok
    /\ RowsWithReference(db.gl, Ref("InvoiceID", last.args.id, 0)) # <<>>
    /\ RowsWithReference(db.gl, Ref("VoidInvoiceID", last.args.id, 0)) # <<>>


-----------------------------------------------------------------------------
(* Two connections to the same database file, each running one operation   *)
(* at a time, statement by statement.  In SpecConc tx.conn[c] is the        *)
(* transaction of connection c and tx.mode the journal mode of the file.    *)
(* A connection reads the committed database as of its first statement      *)
(* after BEGIN (a deferred transaction) and keeps that view in work.        *)
(* SQLite admits one writer at a time: a write needs the write lock; with   *)
(* a rollback journal a commit needs every other connection to hold no      *)
(* lock, with a write-ahead log a connection that has read can write only   *)
(* if nothing was committed since it read.  A lock that cannot be had       *)
(* raises sqlite3.OperationalError once the busy timeout has run out.       *)

Conns == {1, 2}

JournalModes == {"delete", "wal"}

(* Operations a connection runs, one after the other *)
CallsPerConnection == 1

Idle == [pc |-> "idle", op |-> "none", args |-> <<>>, stmts |-> <<>>, k |-> 0,
         work |-> <<>>, lock |-> "none", overlapped |-> FALSE, calls |-> 0]

(* Connection c back between two operations *)
Finished(c) == [Idle EXCEPT !.calls = tx.conn[c].calls]

(* The operations whose first statement after BEGIN is a SELECT *)
ReadsFirst == {"apply_full_payment_to_invoice", "apply_full_payment_to_bill", "void_invoice", "void_bill"}

(* create_simple_sales_invoice picks the number before BEGIN *)
ResolveNumber(op, a, d) ==
    IF op = "create_simple_sales_invoice" /\ a.number = NoNumber
    THEN [a EXCEPT !.number = GenerateInvoiceNumber(d.inv)]
    ELSE a

(* Variant: any connection may write at any time *)
CanWrite_unlocked(c) == TRUE

(* Connection c can take, or already has, the write lock *)
CanWrite(c) ==
    /\ \A o \in Conns \ {c} : tx.conn[o].lock # "reserved"
    /\ (tx.mode = "wal" /\ tx.conn[c].lock = "shared") => tx.conn[c].work = db

(* Connection c can take the exclusive lock that COMMIT needs *)
CanCommit(c) ==
    tx.mode = "delete" => \A o \in Conns \ {c} : tx.conn[o].lock = "none"

(* An invoice, resp. a bill, of 1 with a payment of 1 recorded for it *)
InvoiceReady ==
    record_simple_customer_payment(
        create_simple_sales_invoice(EmptyDB, 1, 1, 1, 1, 4, 3, NoNumber, 0, 1, FALSE).db,
        1, 1, 1, 1, 3, 1, FALSE).db

BillReady ==
    record_simple_vendor_payment(
        enter_simple_vendor_bill(EmptyDB, 1, 1, 1, 1, 1, 6, 5, 0, 1, FALSE).db,
        1, 1, 1, 1, 5, 1, FALSE).db

InitConc ==
    /\ db \in {InvoiceReady, BillReady}
    /\ today = 1
    /\ last = [op |-> "none", args |-> <<>>, ok |-> TRUE, rc |-> "none", conn |-> 0, overlapped |-> FALSE]
    /\ \E mode \in JournalModes : tx = [mode |-> mode, conn |-> [c \in Conns |-> Idle]]

ConcCalls(d) ==
    {Call("record_simple_cash_receipt", [amount |-> amount, bank |-> 1, cash |-> 1, contra |-> 4]) :
        amount \in {1, MaxAmount}}
    \cup {Call("record_simple_vendor_payment", [amount |-> 1, bank |-> 1, cash |-> 1, contra |-> 5, party |-> 1])}
    \cup {Call("create_simple_sales_invoice",
               [party |-> 1, item |-> <<1, 1, 0>>, number |-> NoNumber, debit |-> 3, credit |-> 4])}
    \cup {Call(op, [payment_id |-> 1, id |-> 1]) :
             op \in IF Len(d.inv) > 0 /\ Len(d.cpay) > 0 THEN {"apply_full_payment_to_invoice"} ELSE {}}
    \cup {Call(op, [payment_id |-> 1, id |-> 1]) :
             op \in IF Len(d.bills) > 0 /\ Len(d.vpay) > 0 THEN {"apply_full_payment_to_bill"} ELSE {}}
    \cup {Call(op, [id |-> 1, debit |-> 4, credit |-> 3]) :
             op \in IF Len(d.inv) > 0 THEN {"void_invoice"} ELSE {}}
    \cup {Call(op, [id |-> 1, debit |-> 5, credit |-> 6]) :
             op \in IF Len(d.bills) > 0 THEN {"void_bill"} ELSE {}}

(* Connection c leaves its operation without commit *)
Fails(c, rc) ==
    /\ tx' = [tx EXCEPT !.conn[c] = Finished(c)]
    /\ last' = [op |-> tx.conn[c].op, args |-> tx.conn[c].args, ok |-> FALSE, rc |-> rc,
                conn |-> c, overlapped |-> tx.conn[c].overlapped]
    /\ UNCHANGED <<db, today>>

(* The call passes validation, picks its number, and executes BEGIN *)
ConcBegin(c, calls) ==
    \E call \in calls :
        /\ tx.conn[c].pc = "idle"
        /\ tx.conn[c].calls < CallsPerConnection
        /\ Program(call.op, call.args, db, today).begin
        /\ tx' = [tx EXCEPT !.conn[c] = [Idle EXCEPT !.pc = "begun", !.op = call.op,
                                                     !.args = ResolveNumber(call.op, call.args, db),
                                                     !.calls = tx.conn[c].calls + 1]]
        /\ UNCHANGED <<db, today, last>>

(* The first statement after BEGIN: the SELECTs of apply and void take the *)
(* read lock, the first INSERT of the other operations the write lock      *)
ConcFirst(c) ==
    LET t == tx.conn[c]
    IN  /\ t.pc = "begun"
        /\ t.op \notin ReadsFirst => CanWrite(c)
        /\ tx' = [tx EXCEPT !.conn[c] =
                     [t EXCEPT !.pc = "running", !.k = 1, !.work = db,
                               !.stmts = Program(t.op, t.args, db, today).stmts,
                               !.lock = IF t.op \in ReadsFirst THEN "shared" ELSE "reserved"]]
        /\ UNCHANGED <<db, today, last>>

ConcStatement(c) ==
    LET t == tx.conn[c]
    IN  /\ t.pc = "running"
        /\ t.k <= Len(t.stmts)
        /\ t.stmts[t.k].kind # "raise"
        /\ CanWrite(c)
        /\ LET r == _execute_sql(db, t.work, t.stmts[t.k])
           IN  /\ tx' = [tx EXCEPT !.conn[c] = [t EXCEPT !.work = r.work, !.k = @ + 1, !.lock = "reserved"]]
               /\ db' = r.db
        /\ UNCHANGED <<today, last>>

(* The write lock cannot be had: "database is locked" *)
ConcBusy(c) ==
    LET t == tx.conn[c]
    IN  /\ \/ t.pc = "begun" /\ t.op \notin ReadsFirst
           \/ t.pc = "running" /\ t.k <= Len(t.stmts) /\ t.stmts[t.k].kind # "raise"
        /\ ~CanWrite(c)
        /\ Fails(c, "OperationalError")

ConcRollback(c) ==
    LET t == tx.conn[c]
    IN  /\ t.pc = "running"
        /\ t.k <= Len(t.stmts)
        /\ t.stmts[t.k].kind = "raise"
        /\ Fails(c, t.stmts[t.k].val)

(* conn.commit(): the writes of c become the committed database; every    *)
(* other connection in a transaction has now run beside a commit           *)
ConcCommit(c) ==
    LET t == tx.conn[c]
    IN  /\ t.pc = "running"
        /\ t.k = Len(t.stmts) + 1
        /\ CanCommit(c)
        /\ db' = t.work
        /\ tx' = [tx EXCEPT !.conn = [o \in Conns |->
                     IF o = c THEN Finished(c)
                     ELSE IF tx.conn[o].pc = "idle" THEN tx.conn[o]
                     ELSE [tx.conn[o] EXCEPT !.overlapped = TRUE]]]
        /\ last' = [op |-> t.op, args |-> t.args, ok |-> TRUE, rc |-> "commit",
                    conn |-> c, overlapped |-> t.overlapped]
        /\ UNCHANGED today

(* The exclusive lock cannot be had: conn.commit() raises *)
ConcCommitBusy(c) ==
    LET t == tx.conn[c]
    IN  /\ t.pc = "running"
        /\ t.k = Len(t.stmts) + 1
        /\ ~CanCommit(c)
        /\ Fails(c, "OperationalError")

NextConc ==
    \E c \in Conns :
        \/ ConcBegin(c, ConcCalls(db))
        \/ ConcFirst(c)
        \/ ConcStatement(c)
        \/ ConcBusy(c)
        \/ ConcRollback(c)
        \/ ConcCommit(c)
        \/ ConcCommitBusy(c)

SpecConc == InitConc /\ [][NextConc]_vars

(* Every commit installs what the whole handler gives on the database      *)
(* committed just before it                                                *)
ConcCommitStep(c) == tx.conn[c].pc = "running" /\ tx'.conn[c].pc = "idle" /\ last'.ok /\ last'.conn = c

CommitsAreSerial ==
    [][\A c \in Conns : ConcCommitStep(c) =>
          LET h == Handler(tx.conn[c].op, tx.conn[c].args, db, today)
          IN  h.ok /\ db' = h.db]_vars


(* C25: a void and an apply-payment on one document never both take        *)
(* effect, however their statements interleave: no invoice and no bill is  *)
(* Paid while a reversing batch for it is in the ledger, and none is       *)
(* Cancelled with PaidAmount > 0.                                          *)
C25_NoConflictingOutcome ==
    /\ \A i \in 1 .. Len(db.inv) :
          /\ ~(db.inv[i].Status = "Paid" /\ RowsWithReference(db.gl, Ref("VoidInvoiceID", i, 0)) # <<>>)
          /\ ~(db.inv[i].Status = "Cancelled" /\ db.inv[i].PaidAmount > 0)
    /\ \A i \in 1 .. Len(db.bills) :
          /\ ~(db.bills[i].Status = "Paid" /\ RowsWithReference(db.gl, Ref("VoidBillID", i, 0)) # <<>>)
          /\ ~(db.bills[i].Status = "Cancelled" /\ db.bills[i].PaidAmount > 0)


(* What the committed movement rows of a bank account add up to *)
MovementsOf(d, bank_account_id) ==
    SumSeq([i \in 1 .. Len(d.ct) |->
                IF d.ct[i].BankAccountID # bank_account_id THEN 0
                ELSE IF d.ct[i].TransactionType = "Deposit" THEN d.ct[i].Amount
                ELSE IF d.ct[i].TransactionType = "Withdrawal" THEN 0 - d.ct[i].Amount
                ELSE 0])
    + SumSeq([i \in 1 .. Len(d.cpay) |->
                IF d.cpay[i].BankAccountID = bank_account_id THEN d.cpay[i].Amount ELSE 0])
    - SumSeq([i \in 1 .. Len(d.vpay) |->
                IF d.vpay[i].BankAccountID = bank_account_id THEN d.vpay[i].Amount ELSE 0])

(* C26: concurrent cash operations on one bank account lose no update.     *)
(* Each receipt or vendor payment that commits moves the committed         *)
(* CurrentBalance by its signed amount from whatever was committed just    *)
(* before, and the derived balance of the cash account by as much; so      *)
(* after any interleaving the cached balance is the sum of all committed   *)
(* movements and equals the cash account's ledger balance.                 *)
C26_CashCommitStep ==
    /\ \A c \in Conns :
          LET a == tx.conn[c].args
              signed == IF tx.conn[c].op = "record_simple_cash_receipt" THEN a.amount ELSE 0 - a.amount
          IN  (ConcCommitStep(c)
                  /\ tx.conn[c].op \in {"record_simple_cash_receipt", "record_simple_vendor_payment"}) =>
                 /\ view_bank_account_balance(db', a.bank) = view_bank_account_balance(db, a.bank) + signed
                 /\ view_gl_account_balance(db', a.cash) = view_gl_account_balance(db, a.cash) + signed
    /\ \A bank_account_id \in BankAccountIDs :
          view_bank_account_balance(db', bank_account_id) = MovementsOf(db', bank_account_id)
    /\ view_bank_account_balance(db', 1) = view_gl_account_balance(db', 1)

C26_NoLostUpdate == [][C26_CashCommitStep]_vars

(* A vendor payment has committed after a receipt on the same bank account *)
(* committed while the payment's transaction was under way                 *)
C26_Witness ==
    /\ last.op = "record_simple_vendor_payment"
    /\ last.ok
    /\ last.overlapped
    /\ Len(db.ct) = 1
    /\ db.ct[1].Amount = MaxAmount
    /\ db.ct[1].BankAccountID = last.args.bank


(* C27: invoice numbers stay unique under concurrent creation.  When two   *)
(* create_simple_sales_invoice calls both take their number by             *)
(* scan-max-then-increment, no two committed invoices share an             *)
(* InvoiceNumber, and a creator that fails, the loser of the race          *)
(* included, commits no header, no line item and no ledger line: the       *)
(* committed database changes on commit steps only.                        *)
C27_CreateRaceStep ==
    /\ \A i \in 1 .. Len(db'.inv) : \A j \in 1 .. Len(db'.inv) :
          db'.inv[i].InvoiceNumber = db'.inv[j].InvoiceNumber => i = j
    /\ \A c \in Conns :
          (tx.conn[c].op = "create_simple_sales_invoice" /\ tx'.conn[c].pc = "idle"
              /\ ~last'.ok /\ last'.conn = c) => db' = db
    /\ db' # db => \E c \in Conns : ConcCommitStep(c)
    /\ \A c \in Conns :
          (ConcCommitStep(c) /\ tx.conn[c].op = "create_simple_sales_invoice") =>
              /\ Len(db'.inv) = Len(db.inv) + 1
              /\ Len(db'.invItems) = Len(db.invItems) + 1
              /\ Len(db'.gl) = Len(db.gl) + 2

C27_NumbersUniqueUnderRace == [][C27_CreateRaceStep]_vars

(* Two creators took the same number; one committed, the other has failed  *)
(* at its header INSERT                                                    *)
C27_Witness ==
    /\ last.op = "create_simple_sales_invoice"
    /\ ~last.ok
    /\ last.rc = "IntegrityError"
    /\ last.overlapped
    /\ \E i \in 1 .. Len(db.inv) : db.inv[i].InvoiceNumber = last.args.number
    /\ Len(db.invItems) = Len(db.inv)


-----------------------------------------------------------------------------
(* One payment, one document; invoice and bill side by side *)

(* C28: a payment settles at most one document.  Documents become Paid     *)
(* through apply-payment only, so there are never more Paid invoices than  *)
(* customer payments, nor more Paid bills than vendor payments.            *)
C28_PaymentSettlesOneDocument ==
    /\ Cardinality({i \in 1 .. Len(db.inv) : db.inv[i].Status = "Paid"}) <= Len(db.cpay)
    /\ Cardinality({i \in 1 .. Len(db.bills) : db.bills[i].Status = "Paid"}) <= Len(db.vpay)


(* The same call made on the receivable and on the payable side: the       *)
(* invoice operation, then its bill counterpart with the account roles     *)
(* swapped.  last.ok is the invoice operation's outcome, last.bill_ok the   *)
(* bill operation's.                                                        *)
Twin(op, args, r_invoice, r_bill) ==
    /\ db' = r_bill.db
    /\ today' = r_bill.today
    /\ last' = [op |-> op, args |-> args, ok |-> r_invoice.ok, rc |-> r_invoice.rc, bill_ok |-> r_bill.ok]
    /\ tx' = tx

TwinCreate(items) ==
    \E item \in items :
        LET r == create_simple_sales_invoice(db, 1, today, item[1], item[2], 4, 3, NoNumber, item[3], today, FALSE)
        IN  Twin("create", [item |-> item], r,
                 enter_simple_vendor_bill(r.db, 1, Len(db.bills) + 1, today, item[1], item[2], 6, 5, item[3], today, FALSE))

TwinPayment(amounts) ==
    \E amount \in amounts :
        LET r == record_simple_customer_payment(db, 1, amount, 1, 1, 3, today, FALSE)
        IN  Twin("record-payment", [amount |-> amount], r,
                 record_simple_vendor_payment(r.db, 1, amount, 2, 2, 5, today, FALSE))

TwinApply ==
    \E payment_id \in 1 .. (Len(db.cpay) + 1), id \in 1 .. (Len(db.inv) + 1) :
        LET r == apply_full_payment_to_invoice(db, payment_id, id, today)
        IN  Twin("apply-payment", [payment_id |-> payment_id, id |-> id], r,
                 apply_full_payment_to_bill(r.db, payment_id, id, today))

TwinVoid ==
    \E id \in 1 .. (Len(db.inv) + 1) :
        LET r == void_invoice(db, id, 3, 4, today, FALSE)
        IN  Twin("void", [id |-> id], r, void_bill(r.db, id, 5, 6, today, FALSE))

NextTwin ==
    /\ last.ok
    /\ \/ TwinCreate(LineItems)
       \/ TwinPayment(0 .. MaxAmount)
       \/ TwinApply
       \/ TwinVoid
    /\ Len(db'.gl) <= 4 * MaxPostings

SpecTwin == Init /\ [][NextTwin]_vars

CorrespondingStatus(invoice_status, bill_status) ==
    IF invoice_status = "Issued" THEN bill_status = "Received" ELSE bill_status = invoice_status

(* C29: driven by the same calls with the same amounts, an invoice and a   *)
(* bill go through corresponding statuses with the same PaidAmount and the *)
(* same Balance at every step, and every call has the same outcome on both *)
(* sides.                                                                  *)
C29_SameLifecycle ==
    /\ last.op # "none" => last.bill_ok = last.ok
    /\ Len(db.bills) = Len(db.inv)
    /\ \A i \in 1 .. Len(db.inv) : i <= Len(db.bills) =>
          /\ CorrespondingStatus(db.inv[i].Status, db.bills[i].Status)
          /\ db.bills[i].PaidAmount = db.inv[i].PaidAmount
          /\ BillBalance(db.bills[i]) = db.inv[i].Balance


-----------------------------------------------------------------------------
(* The trial balance as the caller gets it.  Amounts are bound as          *)
(* str(Decimal); SUM(DebitAmount) comes back with no declared type, so as  *)
(* a Python int when every addend is a whole number, as a float when one   *)
(* has a fractional part, and as None over no rows.  In SpecTrial the      *)
(* ledger amounts count minor units, MinorPerUnit of them to the currency  *)
(* unit.                                                                   *)

MinorPerUnit == 10

(* The Python type of `r['Total...'] if r and r['Total...'] else           *)
(* Decimal('0.00')` for the given addends                                  *)
SumOperand(amounts) ==
    IF Len(amounts) = 0 \/ SumSeq(amounts) = 0 THEN "Decimal"
    ELSE IF \E k \in 1 .. Len(amounts) : amounts[k] % MinorPerUnit # 0 THEN "float"
    ELSE "int"

(* debit_sum - credit_sum, then total_debits += balance: a float meets a   *)
(* Decimal and Python raises TypeError                                     *)
TrialBalanceRaises(d, account_id, report_date) ==
    LET rows == SelectSeq(d.gl, LAMBDA r :
                    r.AccountID = account_id /\ (report_date = 0 \/ r.EntryDate <= report_date))
        debit_sum  == SumOperand([k \in 1 .. Len(rows) |-> rows[k].DebitAmount])
        credit_sum == SumOperand([k \in 1 .. Len(rows) |-> rows[k].CreditAmount])
    IN  \/ debit_sum = "float" /\ credit_sum = "Decimal"
        \/ debit_sum = "Decimal" /\ credit_sum = "float"
        \/ /\ "float" \in {debit_sum, credit_sum}
           /\ DebitsOf(rows) # CreditsOf(rows)

(* except Exception: return None *)
generate_trial_balance_returned(d, report_date) ==
    IF \E account_id \in ActiveAccounts : TrialBalanceRaises(d, account_id, report_date)
    THEN [ok |-> FALSE, accounts |-> <<>>, totals |-> [debit |-> 0, credit |-> 0]]
    ELSE [ok |-> TRUE,
          accounts |-> generate_trial_balance(d, report_date).accounts,
          totals |-> generate_trial_balance(d, report_date).totals]

NextTrial ==
    /\ last.ok
    /\ \/ ManualJournal(1 .. MaxAmount, {<<1, 4>>, <<4, 1>>, <<6, 5>>, <<5, 6>>, <<1, 6>>, <<6, 7>>}, {0}, {FALSE})
       \/ AssetPurchase({1}, 1 .. MaxAmount, {6}, {1, 5}, {FALSE})
    /\ Within(MaxPostings)

SpecTrial == Init /\ [][NextTrial]_vars

(* The row of an account shows its derived balance in one column *)
RowShowsBalance(row, balance_type, balance) ==
    /\ (balance > 0 /\ balance_type = "Debit") => (row.Debit = balance /\ row.Credit = 0)
    /\ (balance > 0 /\ balance_type = "Credit") => (row.Credit = balance /\ row.Debit = 0)
    /\ (balance < 0 /\ balance_type = "Debit") => (row.Credit = 0 - balance /\ row.Debit = 0)
    /\ (balance < 0 /\ balance_type = "Credit") => (row.Debit = 0 - balance /\ row.Credit = 0)
    /\ balance = 0 => (row.Debit = 0 /\ row.Credit = 0)
    /\ ~(row.Debit # 0 /\ row.Credit # 0)

(* The report is made and is the claimed one *)
TrialBalanceAsClaimed(tb, d) ==
    /\ DOMAIN tb.accounts = ActiveAccounts
    /\ \A account_id \in ActiveAccounts :
          RowShowsBalance(tb.accounts[account_id], ChartOfAccounts[account_id].BalanceType,
                          view_gl_account_balance(d, account_id))
    /\ tb.totals.debit = SumOver(ActiveAccounts, [a \in ActiveAccounts |-> tb.accounts[a].Debit])
    /\ tb.totals.credit = SumOver(ActiveAccounts, [a \in ActiveAccounts |-> tb.accounts[a].Credit])

(* C30: generate_trial_balance, called without an as-of date, lists        *)
(* exactly the active accounts, each with its derived balance in one       *)
(* column (positive on the side of the account's polarity, negative as its *)
(* absolute value on the other side, zero in neither), never with both     *)
(* columns non-zero; the totals are the column sums and every row agrees   *)
(* with view_gl_account_balance.                                           *)
C30_TrialBalanceRows ==
    LET tb == generate_trial_balance_returned(db, 0)
    IN  tb.ok /\ TrialBalanceAsClaimed(tb, db)


-----------------------------------------------------------------------------
(* C31: distinct posting operations never share a batch reference.  Every  *)
(* batch of a public operation has two rows, so in every reachable state   *)
(* each Reference value in the ledger is carried by the two rows of one    *)
(* batch and by no other row; this covers manual journals posted without   *)
(* a reference and fixed-asset purchases.                                  *)
C31_ReferenceNamesOneBatch ==
    \A k \in 1 .. Len(db.gl) : Len(RowsWithReference(db.gl, db.gl[k].Reference)) = 2


-----------------------------------------------------------------------------
(* Manual journals between accounts of either polarity, with and without   *)
(* a reference of the caller's, next to an invoice and a payment.          *)
ManualJournalAs(amounts, pairs, references) ==
    \E amount \in amounts, pair \in pairs, reference \in references :
        Do("post_simple_manual_journal_entry",
           [amount |-> amount, debit |-> pair[1], credit |-> pair[2], reference |-> reference],
           post_simple_manual_journal_entry(db, today, pair[1], pair[2], amount, reference, today, FALSE))

JournalPairs == {<<1, 4>>, <<4, 1>>, <<6, 3>>, <<5, 7>>, <<3, 3>>}

NextJournal ==
    /\ last.ok
    /\ \/ ManualJournalAs({0, MaxAmount}, JournalPairs, {0, 1})
       \/ CreateInvoice({1}, {<<1, 1, 0>>}, {NoNumber}, {4}, {3}, {FALSE})
       \/ CustomerPayment({1}, {1}, {1}, {1}, {3}, {FALSE})
    /\ Within(MaxBatches)

SpecJournal == Init /\ [][NextJournal]_vars

(* By how much a debit, resp. a credit, of amount moves the derived        *)
(* balance of an account of the given polarity                             *)
DebitEffect(balance_type, amount) == IF balance_type = "Credit" THEN 0 - amount ELSE amount

CreditEffect(balance_type, amount) == IF balance_type = "Credit" THEN amount ELSE 0 - amount

(* C32: a successful post_simple_manual_journal_entry commits exactly two  *)
(* ledger lines, both under its reference: one debits the debit account    *)
(* and one credits the credit account, for the same amount.  The derived   *)
(* balance of each of the two accounts rises or falls by the amount as its *)
(* polarity says, no other balance moves, and no document, payment, cash   *)
(* transaction or cached bank balance is touched.                          *)
C32_JournalStep ==
    (last'.op = "post_simple_manual_journal_entry" /\ last'.ok) =>
        LET a   == last'.args
            ref == IF a.reference = 0 THEN Ref("Manual Journal Entry", today, 0)
                                      ELSE Ref("text", a.reference, 0)
        IN  /\ SubSeq(db'.gl, 1, Len(db.gl)) = db.gl
            /\ Len(NewRows) = 2
            /\ NewRows[1].AccountID = a.debit /\ NewRows[1].DebitAmount = a.amount
            /\ NewRows[1].CreditAmount = 0
            /\ NewRows[2].AccountID = a.credit /\ NewRows[2].CreditAmount = a.amount
            /\ NewRows[2].DebitAmount = 0
            /\ \A k \in 1 .. 2 : NewRows[k].Reference = ref
            /\ a.amount > 0
            /\ \A account_id \in AccountIDs :
                  view_gl_account_balance(db', account_id) =
                      view_gl_account_balance(db, account_id)
                      + (IF account_id = a.debit
                         THEN DebitEffect(ChartOfAccounts[account_id].BalanceType, a.amount) ELSE 0)
                      + (IF account_id = a.credit
                         THEN CreditEffect(ChartOfAccounts[account_id].BalanceType, a.amount) ELSE 0)
            /\ [db' EXCEPT !.gl = db.gl] = db

C32_ManualJournalPostsTwoLines == [][C32_JournalStep]_vars

(* A journal between two credit-polarity accounts is posted under the      *)
(* caller's reference while an invoice, a payment and a bank balance exist *)
C32_Witness ==
    /\ last.op = "post_simple_manual_journal_entry" /\ last.ok
    /\ last.args.debit = 5 /\ last.args.credit = 7 /\ last.args.reference = 1
    /\ Len(db.inv) = 1 /\ Len(db.cpay) = 1 /\ db.bank[1] > 0


-----------------------------------------------------------------------------
(* The balance of an account as the caller gets it.  The sums come back    *)
(* as Python floats when an addend has a fractional part, and              *)
(* Decimal(float) is the exact value of the binary fraction: of the        *)
(* amounts counted in minor units, only the halves of the currency unit    *)
(* are binary fractions.                                                   *)

(* The float nearest to n minor units is another number *)
Rounded(n) == n % MinorPerUnit # 0 /\ (2 * n) % MinorPerUnit # 0

(* Whether the float SUM of the amounts is their sum: it is when no addend *)
(* is rounded, it is not when the sum itself is no binary fraction, and    *)
(* otherwise the errors of the addends may or may not cancel.              *)
SumIsExact(amounts) ==
    IF \A k \in 1 .. Len(amounts) : ~Rounded(amounts[k]) THEN {TRUE}
    ELSE IF Rounded(SumSeq(amounts)) THEN {FALSE}
    ELSE BOOLEAN

(* Whether Decimal(TotalDebit) - Decimal(TotalCredit) is the difference of *)
(* the stored amounts                                                      *)
DifferenceIsExact(debits, credits) ==
    IF SumIsExact(debits) = {TRUE} /\ SumIsExact(credits) = {TRUE} THEN {TRUE}
    ELSE IF {SumIsExact(debits), SumIsExact(credits)} = {{TRUE}, {FALSE}} THEN {FALSE}
    ELSE BOOLEAN

view_gl_account_balance_returned(d, account_id) ==
    IF account_id \notin DOMAIN ChartOfAccounts THEN [value |-> 0, exact |-> {TRUE}]
    ELSE LET rows == RowsOfAccount(d.gl, account_id)
         IN  [value |-> view_gl_account_balance(d, account_id),
              exact |-> DifferenceIsExact([k \in 1 .. Len(rows) |-> rows[k].DebitAmount],
                                          [k \in 1 .. Len(rows) |-> rows[k].CreditAmount])]

(* An account id that is not in the chart of accounts *)
UnknownAccount == 9

ViewBalance(account_ids) ==
    \E account_id \in account_ids :
        Do("view_gl_account_balance",
           [account |-> account_id, returned |-> view_gl_account_balance_returned(db, account_id)],
           Result(db, TRUE, "none", today))

(* Journals of a tenth, a half and a whole currency unit, and the balance  *)
(* query of accounts of either polarity and of an unknown account.         *)
NextBalance ==
    /\ last.ok
    /\ \/ ManualJournal({1, MinorPerUnit \div 2, MinorPerUnit}, {<<1, 4>>, <<4, 1>>, <<6, UnknownAccount>>}, {0}, {FALSE})
       \/ ViewBalance({1, 4, 6, UnknownAccount})
    /\ Within(MaxPostings)

SpecBalance == Init /\ [][NextBalance]_vars

(* C33: view_gl_account_balance returns sum(debit) - sum(credit) over the  *)
(* account's ledger lines for a Debit-polarity account and sum(credit) -   *)
(* sum(debit) for a Credit-polarity one, returns zero for an account id    *)
(* that is not in the chart of accounts, and changes no state.             *)
C33_ViewStep ==
    last'.op = "view_gl_account_balance" =>
        LET account_id == last'.args.account
            returned   == last'.args.returned
            rows       == RowsOfAccount(db.gl, account_id)
        IN  /\ db' = db
            /\ TRUE \in returned.exact
            /\ account_id \notin DOMAIN ChartOfAccounts => returned.value = 0
            /\ (account_id \in DOMAIN ChartOfAccounts /\ ChartOfAccounts[account_id].BalanceType = "Debit")
                  => returned.value = DebitsOf(rows) - CreditsOf(rows)
            /\ (account_id \in DOMAIN ChartOfAccounts /\ ChartOfAccounts[account_id].BalanceType = "Credit")
                  => returned.value = CreditsOf(rows) - DebitsOf(rows)

C33_BalanceIsSignedSum == [][C33_ViewStep]_vars


-----------------------------------------------------------------------------
(* Invoices created one after the other, with a number of the caller's     *)
(* (INV-0001, inv-0002 in small letters, INV-9223372036854775808) or       *)
(* without one.                                                            *)
SuppliedNumbers == {InvNum("INV-", 1, 4), InvNum("inv-", 2, 4), InvNum("INV-", MaxInt64 + 1, 4)}

NextNumbers ==
    /\ last.ok
    /\ \/ CreateInvoice({1}, {<<1, 1, 0>>, <<1, 0, 0>>}, {NoNumber} \cup SuppliedNumbers, {4}, {3}, {FALSE})
       \/ VoidInvoice({3}, {4}, {FALSE})
    /\ Within(MaxBatches)

SpecNumbers == Init /\ [][NextNumbers]_vars

(* The greatest numeric suffix among the invoice numbers that start with   *)
(* 'INV-', 0 when there is none                                            *)
GreatestSuffix(inv) ==
    LET nums == {inv[i].InvoiceNumber.n : i \in {j \in 1 .. Len(inv) : inv[j].InvoiceNumber.lit = "INV-"}}
    IN  IF nums = {} THEN 0 ELSE CHOOSE m \in nums : \A k \in nums : k <= m

(* C34: in sequential execution, create_simple_sales_invoice called        *)
(* without a number assigns INV-<n+1>, n being the greatest numeric suffix *)
(* among the existing invoice numbers that start with 'INV-' (0 when there *)
(* is none); the number it generates equals no existing invoice number and *)
(* is greater than every number generated before.                          *)
C34_GenerateStep ==
    (/\ last'.op = "create_simple_sales_invoice"
     /\ last'.args.number = NoNumber
     /\ last'.rc # "ValueError") =>
        /\ last'.ok
        /\ Len(db'.inv) = Len(db.inv) + 1
        /\ LET number == db'.inv[Len(db'.inv)].InvoiceNumber
           IN  /\ number = InvNum("INV-", GreatestSuffix(db.inv) + 1, 4)
               /\ \A i \in 1 .. Len(db.inv) : db.inv[i].InvoiceNumber # number
               /\ \A i \in 1 .. Len(db.inv) :
                     db.inv[i].InvoiceNumber.lit = "INV-" => db.inv[i].InvoiceNumber.n < number.n

C34_GeneratedNumberIsNext == [][C34_GenerateStep]_vars


-----------------------------------------------------------------------------
(* What C35 says of one document *)
PaidAllOrNothing(doc) ==
    /\ doc.PaidAmount \in {0, doc.TotalAmount}
    /\ doc.Status = "Paid" => doc.PaidAmount = doc.TotalAmount
    /\ doc.PaidAmount > 0 => doc.Status = "Paid"
    /\ doc.Status = "Cancelled" => doc.PaidAmount = 0

(* C35: for every invoice and bill, PaidAmount is 0 or TotalAmount, a Paid *)
(* document is paid in full, only a Paid document has a PaidAmount above   *)
(* 0, a Cancelled one has PaidAmount 0; and no call lowers a PaidAmount or *)
(* changes a TotalAmount.                                                  *)
C35_PaidStep ==
    /\ \A i \in 1 .. Len(db'.inv) : PaidAllOrNothing(db'.inv[i])
    /\ \A i \in 1 .. Len(db'.bills) : PaidAllOrNothing(db'.bills[i])
    /\ Len(db'.inv) >= Len(db.inv) /\ Len(db'.bills) >= Len(db.bills)
    /\ \A i \in 1 .. Len(db.inv) :
          /\ db'.inv[i].PaidAmount >= db.inv[i].PaidAmount
          /\ db'.inv[i].TotalAmount = db.inv[i].TotalAmount
    /\ \A i \in 1 .. Len(db.bills) :
          /\ db'.bills[i].PaidAmount >= db.bills[i].PaidAmount
          /\ db'.bills[i].TotalAmount = db.bills[i].TotalAmount

C35_PaidAmountAllOrNothing == [][C35_PaidStep]_vars


(* A bill has been paid in full by an applied payment while an invoice     *)
(* stands unpaid                                                           *)
C35_Witness ==
    /\ last.op = "apply_full_payment_to_bill" /\ last.ok
    /\ db.bills[last.args.id].Status = "Paid"
    /\ db.bills[last.args.id].PaidAmount = db.bills[last.args.id].TotalAmount
    /\ db.bills[last.args.id].TotalAmount > 0
    /\ \E i \in 1 .. Len(db.inv) : db.inv[i].PaidAmount = 0 /\ db.inv[i].TotalAmount > 0


-----------------------------------------------------------------------------
(* The rows of the creation batch and of the void reversing batch of a     *)
(* document, counted by the references the operations give them            *)
BatchesOf(gl, created, voided, id) ==
    [creation |-> Len(RowsWithReference(gl, Ref(created, id, 0))),
     reversal |-> Len(RowsWithReference(gl, Ref(voided, id, 0)))]

(* At most one batch of either kind, two rows each, and no reversal        *)
(* without the creation                                                    *)
OneOfEach(b) ==
    /\ b.creation \in {0, 2} /\ b.reversal \in {0, 2}
    /\ b.reversal = 2 => b.creation = 2

(* What C36 says of document id, before and after a step: docs holds the   *)
(* documents after it                                                      *)
ReversedOnce(before, after, docs, id, void_op) ==
    /\ OneOfEach(after)
    /\ id > Len(docs) => (after.creation = 0 /\ after.reversal = 0)
    /\ after.reversal > before.reversal =>
          /\ last'.op = void_op /\ last'.args.id = id
          /\ docs[id].Status = "Cancelled"

(* C36: for every document the ledger holds at most one void reversing     *)
(* batch (reference VoidInvoiceID:<id> or VoidBillID:<id>) and at most one *)
(* creation batch; a reversing batch is there only if the creation batch   *)
(* is, and the step that posts it leaves the document Cancelled.  No batch *)
(* of either kind names a document that does not exist.                    *)
C36_BatchStep ==
    db'.gl # db.gl =>
        \A i \in 1 .. (MaxBatches + 1) :
            /\ ReversedOnce(BatchesOf(db.gl, "InvoiceID", "VoidInvoiceID", i),
                            BatchesOf(db'.gl, "InvoiceID", "VoidInvoiceID", i),
                            db'.inv, i, "void_invoice")
            /\ ReversedOnce(BatchesOf(db.gl, "BillID", "VoidBillID", i),
                            BatchesOf(db'.gl, "BillID", "VoidBillID", i),
                            db'.bills, i, "void_bill")

-----------------------------------------------------------------------------
(* Receivables against the ledger.  get_total_accounts_receivable hands    *)
(* back SUM(Balance) as SQLite gives it: a Python int, a float, or         *)
(* Decimal('0.00') for nothing or zero.                                    *)
get_total_accounts_receivable_returned(d) ==
    LET open     == SelectSeq(d.inv, LAMBDA r : r.Status \notin {"Paid", "Cancelled", "Draft"} /\ r.Balance > 0)
        balances == [k \in 1 .. Len(open) |-> open[k].Balance]
    IN  [value |-> get_total_accounts_receivable(d),
         type  |-> SumOperand(balances),
         exact |-> SumIsExact(balances)]

(* Whether the Decimal of view_gl_account_balance and the number of        *)
(* get_total_accounts_receivable are one number.  A Decimal difference has *)
(* at most 28 significant digits, the float of a sum that is no binary     *)
(* fraction has more, so the two differ; otherwise they agree when both    *)
(* are exact, differ when one is, and may or may not agree when neither is.*)
SameNumber(balance, total) ==
    IF balance.value # total.value THEN {FALSE}
    ELSE IF total.type = "float" /\ Rounded(total.value) THEN {FALSE}
    ELSE IF balance.exact = {TRUE} /\ total.exact = {TRUE} THEN {TRUE}
    ELSE IF {balance.exact, total.exact} = {{TRUE}, {FALSE}} THEN {FALSE}
    ELSE BOOLEAN

(* record_simple_customer_payment for the balance of the invoice, then     *)
(* apply_full_payment_to_invoice of that payment                           *)
PayAndApply(banks, cashs, ars) ==
    \E invoice_id \in 1 .. Len(db.inv), bank \in banks, cash \in cashs, ar \in ars :
        LET amount  == db.inv[invoice_id].Balance
            payment == record_simple_customer_payment(db, db.inv[invoice_id].CustomerID, amount, bank, cash, ar, today, FALSE)
            applied == apply_full_payment_to_invoice(payment.db, Len(payment.db.cpay), invoice_id, payment.today)
        IN  Do("pay_and_apply",
               [id |-> invoice_id, amount |-> amount, bank |-> bank, cash |-> cash, contra |-> ar],
               IF payment.ok THEN applied ELSE payment)

(* Invoices of a tenth, a half and a whole currency unit on one AR         *)
(* account: created, voided with the creation accounts, paid in full.      *)
NextReceivable ==
    /\ last.ok
    /\ \/ CreateInvoice({1}, {<<1, 1, 0>>, <<1, MinorPerUnit \div 2, 0>>, <<1, MinorPerUnit, 0>>},
                        {NoNumber}, {4}, {3}, {FALSE})
       \/ VoidInvoice({3}, {4}, {FALSE})
       \/ PayAndApply({1}, {1}, {3})
    /\ Within(MaxBatches)

SpecReceivable == Init /\ [][NextReceivable]_vars

(* C37: starting with no invoices, after any sequence of invoice           *)
(* creations, voids given the creation accounts and record-payment-then-   *)
(* apply pairs for the invoice's balance, all on one AR account, the       *)
(* derived ledger balance of the AR account equals the sum of Balance over *)
(* the open invoices as get_total_accounts_receivable returns it.          *)
C37_ReceivablesMatchLedger ==
    TRUE \in SameNumber(view_gl_account_balance_returned(db, 3), get_total_accounts_receivable_returned(db))


-----------------------------------------------------------------------------
(* One connection used for call after call, whatever the last call         *)
(* returned: an accepted call, a refused one and a failed one are all      *)
(* followed by the next.                                                   *)
SessionCalls(d) ==
    {Call("record_simple_cash_receipt", [amount |-> amount, bank |-> 1, cash |-> 1, contra |-> 4, party |-> 1]) :
        amount \in {0, 1}}
    \cup {Call("record_bank_transfer",
               [amount |-> 1, bank |-> 1, cash |-> 1, target_bank |-> target, contra |-> 2]) :
        target \in BankAccountIDs}
    \cup {Call("create_simple_sales_invoice",
               [party |-> 1, item |-> item, number |-> NoNumber, debit |-> 3, credit |-> 4]) :
        item \in {<<1, 1, 0>>, <<0, 1, 0>>}}
    \cup {Call("record_simple_customer_payment",
               [amount |-> 1, bank |-> 1, cash |-> 1, contra |-> 3, party |-> 1])}
    \cup {Call("apply_full_payment_to_invoice", [payment_id |-> payment_id, id |-> id]) :
        payment_id \in 1 .. (Len(d.cpay) + 1), id \in 1 .. (Len(d.inv) + 1)}
    \cup {Call("void_invoice", [id |-> id, debit |-> 4, credit |-> 3]) : id \in 1 .. (Len(d.inv) + 1)}

(* The ledger holds at most MaxPostings batches: a call whose INSERTs      *)
(* would go beyond is not made                                             *)
Fits(stmts) ==
    Len(db.gl) + Cardinality({k \in 1 .. Len(stmts) : stmts[k].kind = "insert" /\ stmts[k].table = "gl"})
        <= 2 * MaxPostings

(* conn.execute("BEGIN") of the next call.  With a transaction still open  *)
(* behind the previous call it raises sqlite3.OperationalError (cannot     *)
(* start a transaction within a transaction), and the except branch rolls  *)
(* back.                                                                   *)
BeginNext(calls) ==
    \E c \in calls :
        LET p == Program(c.op, c.args, db, today)
        IN  /\ p.begin
            /\ Fits(p.stmts)
            /\ IF tx.open
               THEN /\ tx.pc > Len(tx.stmts) + 1
                    /\ tx' = NoTx
                    /\ last' = [op |-> c.op, args |-> c.args, ok |-> FALSE, rc |-> "OperationalError"]
                    /\ UNCHANGED <<db, today>>
               ELSE /\ tx' = [open |-> TRUE, op |-> c.op, args |-> c.args, stmts |-> p.stmts, pc |-> 1, work |-> db]
                    /\ UNCHANGED <<db, today, last>>

(* What the handler does once it has begun *)
HandlerStep == Statement \/ Rollback \/ Fault \/ Commit

NextSession ==
    \/ Refuse(SessionCalls(db))
    \/ BeginNext(SessionCalls(db))
    \/ Statement
    \/ Rollback
    \/ Fault
    \/ Commit

SpecSession == Init /\ [][NextSession]_vars

(* A handler that has begun runs on: Python executes its statements one    *)
(* after the other on the caller's thread                                  *)
SpecSessionLive == SpecSession /\ WF_vars(HandlerStep)

(* The handler is running: a transaction is open and its program is not    *)
(* past the commit                                                         *)
Running(t) == t.open /\ t.pc <= Len(t.stmts) + 1

(* C38: every public mutating operation terminates, and each of its paths  *)
(* (success, rejection by a check, caught exception) ends with a commit or *)
(* a rollback: a transaction is open only while its handler runs, every    *)
(* step of a running handler moves it one statement on until it has        *)
(* returned, no call returns with a transaction open, and the BEGIN of the *)
(* next call on the connection never fails.                                *)
C38_HandlerStep ==
    /\ tx'.open => Running(tx')
    /\ last' # last => (~tx'.open /\ last'.rc # "OperationalError")
    /\ (tx.open /\ tx'.open /\ tx' # tx) =>
          (tx'.pc = tx.pc + 1 /\ tx'.stmts = tx.stmts /\ tx'.op = tx.op)
    /\ (tx.open /\ ~tx'.open) => (last'.op = tx.op /\ last'.args = tx.args)

C38_EveryPathEndsTheTransaction ==
    /\ [][C38_HandlerStep]_vars
    /\ (tx.open ~> ~tx.open)

(* A check of apply_full_payment_to_invoice has refused the call and the   *)
(* transaction was rolled back, after an invoice was committed             *)
C38_Witness ==
    /\ last.op = "apply_full_payment_to_invoice" /\ ~last.ok
    /\ ~tx.open
    /\ Len(db.inv) = 1

====
